---- MODULE Spec2Model ----
(***************************************************************************)
(* Verification model of the out-of-core MapReduce engine (MR-MPI):        *)
(*   src/new/keyvalue.cpp   -- paged KeyValue container                    *)
(*   src/new/mapreduce.cpp  -- engine driver (operators, memory toggle)    *)
(*                                                                         *)
(* Pages are modelled as byte arrays and records are packed and decoded    *)
(* with the pointer arithmetic of the source.  Sizes are scaled: the file  *)
(* alignment unit is 2^FileAlignBits bytes (512 in the source) and a       *)
(* megabyte is 4*PageBlocks alignment units (2048 in the source), so that  *)
(* a page holds a handful of records and spills happen after a few adds.   *)
(***************************************************************************)
EXTENDS Integers, Sequences, FiniteSets, TLC

VARIABLES
  rk,      \* rk[r] : the heap of rank r: engines, KV and KMV objects, memory
  last,    \* observation of the last operator call (name, arguments, results)
  nops     \* number of operator calls made so far

vars == <<rk, last, nops>>

(***************************************************************************)
(* Bounds                                                                  *)
(***************************************************************************)
FileAlignBits == 3        \* ALIGNFILE = 2^FileAlignBits   (source: 512 = 2^9)
PageBlocks    == 2        \* alignment units per memory quarter with memsize 1
MaxOps        == 3        \* operator calls per behaviour
MemSize       == 2        \* the memsize setting of the application

(***************************************************************************)
(* Program constants                                                       *)
(***************************************************************************)
INTMAX    == 2147483647   \* keyvalue.cpp:37
SIZEOFINT == 4            \* sizeof(int)
ALIGNKV   == 4            \* mapreduce.cpp:54
MBYTES    == 100          \* mapreduce.cpp:49
NULL      == 0            \* null object handle
FPNULL    == "NULL"       \* fp = NULL: no open file handle

RECURSIVE Pow2(_)
Pow2(n) == IF n = 0 THEN 1 ELSE 2 * Pow2(n - 1)

ALIGNFILE == Pow2(FileAlignBits)
MByte     == 4 * PageBlocks * ALIGNFILE  \* 1024*1024 in mapreduce.cpp:255

\* a * b in an int (two's complement, INTMAX = 2^31 - 1) for a >= 0 and b a
\* power of two: the product modulo 2^32
MulInt(a, b) ==
  LET q == 2 * ((INTMAX \div b) + 1)
      r == a % q
  IN  IF r < q \div 2 THEN r * b ELSE (r - q) * b

\* the product a * b of ints a, b > 0 does not fit an int
MulOverflows(a, b) == a > INTMAX \div b

Max(a, b) == IF a > b THEN a ELSE b
Min(a, b) == IF a < b THEN a ELSE b

(***************************************************************************)
(* Bytes, ints in memory, pointer rounding                                 *)
(***************************************************************************)
\* x & ~b on non-negative integers, bit by bit
RECURSIVE AndNot(_, _)
AndNot(x, b) ==
  IF x <= 0 THEN 0
  ELSE (IF b % 2 = 0 THEN x % 2 ELSE 0) + 2 * AndNot(x \div 2, b \div 2)

\* #define ROUNDUP(A,B) (char *) (((uint64_t) A + B) & ~B)
\* Offsets are relative to a base that is ALIGNFILE-aligned (mapreduce.cpp:256).
ROUNDUP(A, B) == AndNot(A + B, B)

\* the four bytes of a 32-bit int, little endian, two's complement
\* (a negative n is stored as the complement of -n-1)
IntBytes(n) ==
  [i \in 1..4 |->
     IF n >= 0 THEN (n \div Pow2(8 * (i - 1))) % 256
     ELSE 255 - ((((-n) - 1) \div Pow2(8 * (i - 1))) % 256)]

\* the byte at 0-based offset off of buffer buf (zero beyond its end)
ByteAt(buf, off) == IF off >= 0 /\ off < Len(buf) THEN buf[off + 1] ELSE 0

\* the 32-bit int whose little-endian bytes are b0..b3
Int32(b0, b1, b2, b3) ==
  IF b3 < 128
  THEN b0 + 256 * b1 + 65536 * b2 + 16777216 * b3
  ELSE -(1 + (255 - b0) + 256 * (255 - b1) + 65536 * (255 - b2)
           + 16777216 * (255 - b3))

\* *((int *) &buf[off])
ReadInt(buf, off) ==
  Int32(ByteAt(buf, off), ByteAt(buf, off + 1), ByteAt(buf, off + 2),
        ByteAt(buf, off + 3))

Zeros(n) == [i \in 1..n |-> 0]

\* n bytes of buf from 0-based offset off (zero beyond its end)
ReadBytes(buf, off, n) ==
  SubSeq(buf, off + 1, Min(off + n, Len(buf)))
    \o Zeros(Max(0, n - Max(0, Min(off + n, Len(buf)) - off)))

\* memcpy(&buf[off], src, Len(src)) within the bounds of buf
WriteBytes(buf, off, src) ==
  IF off >= Len(buf) THEN buf
  ELSE SubSeq(buf, 1, off) \o SubSeq(src, 1, Min(Len(src), Len(buf) - off))
         \o SubSeq(buf, off + Len(src) + 1, Len(buf))

RECURSIVE SumSeq(_)
SumSeq(s) == IF s = <<>> THEN 0 ELSE Head(s) + SumSeq(Tail(s))

RECURSIVE Flatten(_)
Flatten(ss) == IF ss = <<>> THEN <<>> ELSE Head(ss) \o Flatten(Tail(ss))

(***************************************************************************)
(* Method calls.  Call(f, a) invokes the method named f with the argument  *)
(* tuple a; the table that binds the names is at the end of the program    *)
(* part of this module.                                                    *)
(***************************************************************************)
RECURSIVE Call(_, _)

(***************************************************************************)
(* A record of the application: key bytes and value bytes                  *)
(***************************************************************************)
Rec(k, v) == [key |-> k, value |-> v]

\* decode one packed KV pair at offset ptr of buf, with the alignment masks
\* of the reader (the scan of keyvalue.cpp:363-374, mapreduce.cpp:1314-1324)
DecodeAt(buf, ptr, kalignm1, valignm1, talignm1) ==
  LET keybytes   == ReadInt(buf, ptr)
      valuebytes == ReadInt(buf, ptr + SIZEOFINT)
      kptr == ROUNDUP(ptr + 2 * SIZEOFINT, kalignm1)
      vptr == ROUNDUP(kptr + keybytes, valignm1)
      nptr == ROUNDUP(vptr + valuebytes, talignm1)
  IN  [keybytes |-> keybytes, valuebytes |-> valuebytes,
       key |-> ReadBytes(buf, kptr, keybytes),
       value |-> ReadBytes(buf, vptr, valuebytes),
       kptr |-> kptr, vptr |-> vptr, next |-> nptr]

\* decode n consecutive packed KV pairs starting at ptr
DecodeN(buf, ptr, n, kalignm1, valignm1, talignm1) ==
  IF n <= 0 THEN <<>>
  ELSE LET d == Call("DecodeAt", <<buf, ptr, kalignm1, valignm1, talignm1>>)
       IN  <<d>> \o Call("DecodeN", <<buf, d.next, n - 1, kalignm1, valignm1,
                                      talignm1>>)

(***************************************************************************)
(* The heap of one rank:                                                   *)
(*   mr[id]   : engines               kvs[id]  : KeyValue objects           *)
(*   kmvs[id] : KeyMultiValue objects mem[ptr] : bytes of a memory block    *)
(*   fs[name] : contents of the files of the scratch directory             *)
(*   instances: the static instance counter of class MapReduce             *)
(*   err      : "" or the message of the fatal error that ended the run    *)
(*   overlap  : history: two live containers had the same working page     *)
(***************************************************************************)
OK(H) == H.err = ""
Fatal(H, msg) == IF OK(H) THEN [H EXCEPT !.err = msg] ELSE H

\* least positive handle not in use (the result of operator new)
NewId(used) == CHOOSE i \in 1..(Cardinality(used) + 1) :
                 i \notin used /\ \A j \in 1..(i - 1) : j \in used

\* store KeyValue object kv under handle id; the history records whether its
\* working page is also the working page of another live container
PutKV(H, id, kv) ==
  [H EXCEPT !.kvs = (id :> kv) @@ @,
            !.overlap = \/ @
                        \/ \E j \in (DOMAIN H.kvs) \ {id} : H.kvs[j].page = kv.page
                        \/ \E j \in DOMAIN H.kmvs : H.kmvs[j].page = kv.page]

DelKV(H, id) ==
  [H EXCEPT !.kvs = [i \in (DOMAIN H.kvs) \ {id} |-> H.kvs[i]]]

(***************************************************************************)
(* KeyValue (src/new/keyvalue.cpp)                                         *)
(***************************************************************************)
\* KeyValue::init_page
init_page(kv) ==
  [kv EXCEPT !.nkey = 0, !.keysize = 0, !.valuesize = 0, !.alignsize = 0]

\* KeyValue::KeyValue
KeyValue_new(memblock, memsize, memkalign, memvalign, memfile) ==
  [filename |-> memfile, fileflag |-> 0, fp |-> FPNULL,
   pages |-> <<>>, npage |-> 0,
   page |-> memblock, pagesize |-> memsize,
   kalign |-> memkalign, valign |-> memvalign,
   talign |-> Max(Max(memkalign, memvalign), SIZEOFINT),
   nkv |-> 0, ksize |-> 0, vsize |-> 0, tsize |-> 0,
   nkey |-> 0, keysize |-> 0, valuesize |-> 0, alignsize |-> 0]

\* the name of the spill file of a KeyValue: the container kind and the
\* memtoggle and counter arguments of the constructor (keyvalue.h:29); the
\* rank is implied, every rank has its own files
KVFile(memtoggle, counter) == <<"kv", memtoggle, counter>>

\* a roundup that leaves its argument as it is
roundup_none(n, nalign) == n

\* KeyValue::roundup
roundup(n, nalign) ==
  IF n % nalign = 0 THEN n ELSE (n \div nalign + 1) * nalign

\* KeyValue::create_page : pages[npage] describes the in-memory page
create_page(kv) ==
  LET pg == [nkey |-> kv.nkey, keysize |-> kv.keysize,
             valuesize |-> kv.valuesize,
             exactsize |-> kv.nkey * (2 * SIZEOFINT) + kv.keysize + kv.valuesize,
             alignsize |-> kv.alignsize,
             filesize |-> roundup(kv.alignsize, ALIGNFILE),
             fileoffset |-> IF kv.npage # 0
                            THEN kv.pages[kv.npage].fileoffset
                                 + kv.pages[kv.npage].filesize
                            ELSE 0]
  IN  [kv EXCEPT !.pages = IF Len(kv.pages) > kv.npage
                           THEN [kv.pages EXCEPT ![kv.npage + 1] = pg]
                           ELSE Append(kv.pages, pg)]

\* fseek(fp,off,SEEK_SET); fwrite(data): the file grows when written past its end
FileWrite(file, off, data) ==
  SubSeq(file, 1, Min(off, Len(file))) \o Zeros(Max(0, off - Len(file)))
    \o data \o SubSeq(file, off + Len(data) + 1, Len(file))

\* fseek(fp,off,SEEK_SET); fread(n bytes): only what the file holds is read
FileRead(file, off, n) == SubSeq(file, off + 1, Min(off + n, Len(file)))

\* the bytes of the file called name (none if there is no such file)
FileOf(H, name) == IF name \in DOMAIN H.fs THEN H.fs[name] ELSE <<>>

\* a write_page that opens the file without recording that it exists
write_page_noflag(H, id) ==
  LET kv0 == H.kvs[id]
      H0  == IF kv0.fp = FPNULL
             THEN [H EXCEPT !.fs = (kv0.filename :> <<>>) @@ @] ELSE H
      kv  == IF kv0.fp = FPNULL
             THEN [kv0 EXCEPT !.fp = "wb"] ELSE kv0
      pg  == kv.pages[kv.npage + 1]
  IN  IF kv.fp = "rb" \/ kv.filename \notin DOMAIN H0.fs
      THEN PutKV(H0, id, kv)
      ELSE PutKV([H0 EXCEPT !.fs[kv.filename] =
                    FileWrite(@, pg.fileoffset,
                              ReadBytes(H.mem[kv.page], 0, pg.filesize))],
                 id, kv)

\* KeyValue::write_page : fopen "wb" creates or truncates the file; a write
\* through a handle opened "rb" fails and leaves the file as it is
write_page(H, id) ==
  LET kv0 == H.kvs[id]
      H0  == IF kv0.fp = FPNULL
             THEN [H EXCEPT !.fs = (kv0.filename :> <<>>) @@ @] ELSE H
      kv  == IF kv0.fp = FPNULL
             THEN [kv0 EXCEPT !.fp = "wb", !.fileflag = 1] ELSE kv0
      pg  == kv.pages[kv.npage + 1]
  IN  IF kv.fp = "rb" \/ kv.filename \notin DOMAIN H0.fs
      THEN PutKV(H0, id, kv)
      ELSE PutKV([H0 EXCEPT !.fs[kv.filename] =
                    FileWrite(@, pg.fileoffset,
                              ReadBytes(H.mem[kv.page], 0, pg.filesize))],
                 id, kv)

\* KeyValue::read_page
read_page(H, id, ipage, writeflag) ==
  LET kv0 == H.kvs[id]
      kv  == IF kv0.fp = FPNULL
             THEN [kv0 EXCEPT !.fp = IF writeflag = 1 THEN "r+b" ELSE "rb"]
             ELSE kv0
      pg  == kv.pages[ipage + 1]
  IN  IF ~OK(H) THEN H
      ELSE IF kv0.fp = FPNULL /\ kv0.filename \notin DOMAIN H.fs
      THEN Fatal(H, "Could not open KeyValue file for reading")
      ELSE [PutKV(H, id, kv) EXCEPT !.mem[kv.page] =
              WriteBytes(@, 0, FileRead(FileOf(H, kv.filename), pg.fileoffset,
                                        pg.filesize))]

\* a spill that starts the next page without writing the full one to the file
spill_page_nowrite(H, id) ==
  LET H1 == PutKV(H, id, [Call("create_page", <<H.kvs[id]>>)
                            EXCEPT !.fileflag = 1])
  IN  PutKV(H1, id, init_page([H1.kvs[id] EXCEPT !.npage = @ + 1]))

\* create_page(); write_page(); npage++; init_page();  (keyvalue.cpp:259-262)
spill_page(H, id) ==
  LET H1 == Call("write_page",
                 <<PutKV(H, id, Call("create_page", <<H.kvs[id]>>)), id>>)
  IN  PutKV(H1, id, init_page([H1.kvs[id] EXCEPT !.npage = @ + 1]))

\* an add that takes a page for full as soon as a pair would fill it exactly
KeyValue_add_full(H, id, key, value) ==
  LET kv   == H.kvs[id]
      keybytes   == Len(key)
      valuebytes == Len(value)
      iptr == kv.alignsize
      kptr == ROUNDUP(iptr + 2 * SIZEOFINT, kv.kalign - 1)
      vptr == ROUNDUP(kptr + keybytes, kv.valign - 1)
      nptr == ROUNDUP(vptr + valuebytes, kv.talign - 1)
      kvbytes == nptr - iptr
  IN  IF ~OK(H) THEN H
      ELSE IF kvbytes > INTMAX
        THEN Fatal(H, "Single key/value pair exceeds int size")
      ELSE IF kv.alignsize + kvbytes >= kv.pagesize \/ kv.nkey = INTMAX
        THEN IF kv.alignsize = 0
             THEN Fatal(H, "Single key/value pair exceeds page size")
             ELSE Call("KeyValue_add",
                       <<Call("spill_page", <<H, id>>), id, key, value>>)
      ELSE [PutKV(H, id, [kv EXCEPT !.nkey = @ + 1,
                                   !.keysize = @ + keybytes,
                                   !.valuesize = @ + valuebytes,
                                   !.alignsize = @ + kvbytes])
              EXCEPT !.mem[kv.page] =
                WriteBytes(
                  WriteBytes(
                    WriteBytes(
                      WriteBytes(@, iptr, IntBytes(keybytes)),
                      iptr + SIZEOFINT, IntBytes(valuebytes)),
                    kptr, key),
                  vptr, value)]

\* KeyValue::add(char *key, int keybytes, char *value, int valuebytes)
KeyValue_add(H, id, key, value) ==
  LET kv   == H.kvs[id]
      keybytes   == Len(key)
      valuebytes == Len(value)
      iptr == kv.alignsize
      kptr == ROUNDUP(iptr + 2 * SIZEOFINT, kv.kalign - 1)
      vptr == ROUNDUP(kptr + keybytes, kv.valign - 1)
      nptr == ROUNDUP(vptr + valuebytes, kv.talign - 1)
      kvbytes == nptr - iptr
  IN  IF ~OK(H) THEN H
      ELSE IF kvbytes > INTMAX
        THEN Fatal(H, "Single key/value pair exceeds int size")
      ELSE IF kv.alignsize + kvbytes > kv.pagesize \/ kv.nkey = INTMAX
        THEN IF kv.alignsize = 0
             THEN Fatal(H, "Single key/value pair exceeds page size")
             ELSE Call("KeyValue_add",
                       <<Call("spill_page", <<H, id>>), id, key, value>>)
      ELSE [PutKV(H, id, [kv EXCEPT !.nkey = @ + 1,
                                   !.keysize = @ + keybytes,
                                   !.valuesize = @ + valuebytes,
                                   !.alignsize = @ + kvbytes])
              EXCEPT !.mem[kv.page] =
                WriteBytes(
                  WriteBytes(
                    WriteBytes(
                      WriteBytes(@, iptr, IntBytes(keybytes)),
                      iptr + SIZEOFINT, IntBytes(valuebytes)),
                    kptr, key),
                  vptr, value)]

\* totals that are accumulated without being reset to zero first
sum_pages_noreset(kv) ==
  LET tot(f) == SumSeq([i \in 1..kv.npage |-> kv.pages[i][f]])
  IN  [kv EXCEPT !.nkv = @ + tot("nkey"), !.ksize = @ + tot("keysize"),
                 !.vsize = @ + tot("valuesize"), !.tsize = @ + tot("exactsize")]

\* the totals of KeyValue::complete (keyvalue.cpp:183-190)
sum_pages(kv) ==
  LET tot(f) == SumSeq([i \in 1..kv.npage |-> kv.pages[i][f]])
  IN  [kv EXCEPT !.nkv = tot("nkey"), !.ksize = tot("keysize"),
                 !.vsize = tot("valuesize"), !.tsize = tot("exactsize")]

\* a complete that makes no page for a container nothing was added to
KeyValue_complete_lazy(H, id) ==
  LET H1 == PutKV(H, id, Call("create_page", <<H.kvs[id]>>))
      W  == Call("write_page", <<H1, id>>)
      H2 == IF H1.kvs[id].fileflag = 1
            THEN PutKV(W, id, [W.kvs[id] EXCEPT !.fp = FPNULL])
            ELSE H1
  IN  IF ~OK(H) THEN H
      ELSE IF H.kvs[id].npage = 0 /\ H.kvs[id].nkey = 0
      THEN PutKV(H, id, sum_pages(H.kvs[id]))
      ELSE PutKV(H2, id,
                 sum_pages(init_page([H2.kvs[id] EXCEPT !.npage = @ + 1])))

\* KeyValue::complete
KeyValue_complete(H, id) ==
  LET H1 == PutKV(H, id, Call("create_page", <<H.kvs[id]>>))
      W  == Call("write_page", <<H1, id>>)
      H2 == IF H1.kvs[id].fileflag = 1
            THEN PutKV(W, id, [W.kvs[id] EXCEPT !.fp = FPNULL])
            ELSE H1
  IN  IF ~OK(H) THEN H
      ELSE PutKV(H2, id,
                 sum_pages(init_page([H2.kvs[id] EXCEPT !.npage = @ + 1])))

\* an append that takes the last page off the list without making it the
\* page being filled
KeyValue_append_fresh(H, id) ==
  IF ~OK(H) \/ H.kvs[id].npage = 0 THEN H
  ELSE LET ipage == H.kvs[id].npage - 1
           H1 == IF H.kvs[id].fileflag = 1
                 THEN Call("read_page", <<H, id, ipage, 1>>) ELSE H
       IN  PutKV(H1, id, [H1.kvs[id] EXCEPT !.npage = @ - 1])

\* KeyValue::append
KeyValue_append(H, id) ==
  IF ~OK(H) \/ H.kvs[id].npage = 0 THEN H
  ELSE LET ipage == H.kvs[id].npage - 1
           H1 == IF H.kvs[id].fileflag = 1
                 THEN Call("read_page", <<H, id, ipage, 1>>) ELSE H
           kv == H1.kvs[id]
           pg == kv.pages[ipage + 1]
       IN  PutKV(H1, id, [kv EXCEPT !.nkey = pg.nkey, !.keysize = pg.keysize,
                                    !.valuesize = pg.valuesize,
                                    !.alignsize = pg.alignsize,
                                    !.npage = @ - 1])

\* a request_page that leaves the file open after the last page
KeyValue_request_page_open(H, id, ipage) ==
  LET H1 == IF H.kvs[id].fileflag = 1
            THEN Call("read_page", <<H, id, ipage, 0>>) ELSE H
      pg == H1.kvs[id].pages[ipage + 1]
  IN  [H |-> H1,
       nkey |-> pg.nkey, keysize |-> pg.keysize,
       valuesize |-> pg.valuesize, alignsize |-> pg.alignsize]

\* KeyValue::request_page : returns the heap after the call and the page's
\* nkey, keysize, valuesize, alignsize
KeyValue_request_page(H, id, ipage) ==
  LET H1 == IF H.kvs[id].fileflag = 1
            THEN Call("read_page", <<H, id, ipage, 0>>) ELSE H
      kv == H1.kvs[id]
      pg == kv.pages[ipage + 1]
  IN  [H |-> IF ipage = kv.npage - 1 /\ kv.fileflag = 1
             THEN PutKV(H1, id, [kv EXCEPT !.fp = FPNULL])
             ELSE H1,
       nkey |-> pg.nkey, keysize |-> pg.keysize,
       valuesize |-> pg.valuesize, alignsize |-> pg.alignsize]

\* the scan for the chunk breakpoint (keyvalue.cpp:409-428): returns the
\* number of pairs that fit, their sizes, ptr_start and the last kvbytes
ScanChunk(kv, buf, ptr, ptr_end, nkeychunk, keychunk, valuechunk, nlimit) ==
  LET d == Call("DecodeAt",
                <<buf, ptr, kv.kalign - 1, kv.valign - 1, kv.talign - 1>>)
  IN  IF d.next > ptr_end \/ nkeychunk = nlimit
      THEN [nkeychunk |-> nkeychunk, keychunk |-> keychunk,
            valuechunk |-> valuechunk, ptr_start |-> ptr,
            kvbytes |-> d.next - ptr]
      ELSE Call("ScanChunk",
                <<kv, buf, d.next, ptr_end, nkeychunk + 1,
                  keychunk + d.keybytes, valuechunk + d.valuebytes, nlimit>>)

\* a chunk loop that writes the current page out before the chunk is copied
\* into it
add_chunks_spillfirst(H, id, n, buf, ptr, keysize_buf, valuesize_buf, alignsize_buf, nlimit) ==
  LET kv == H.kvs[id]
      ptr_begin == ptr
      ptr_end   == ptr_begin + (kv.pagesize - kv.alignsize)
      c  == Call("ScanChunk", <<kv, buf, ptr, ptr_end, 0, 0, 0, nlimit>>)
      chunksize == c.ptr_start - ptr_begin
      H1 == Call("spill_page", <<H, id>>)
      k1 == H1.kvs[id]
      H2 == [PutKV(H1, id, [k1 EXCEPT !.nkey = @ + c.nkeychunk,
                                      !.keysize = @ + c.keychunk,
                                      !.valuesize = @ + c.valuechunk,
                                      !.alignsize = @ + chunksize])
               EXCEPT !.mem[kv.page] =
                 WriteBytes(@, 0, ReadBytes(buf, ptr_begin, chunksize))]
  IN  IF ~OK(H) THEN H
      ELSE IF kv.alignsize + alignsize_buf > kv.pagesize \/ n > nlimit
      THEN IF c.kvbytes > kv.pagesize
           THEN Fatal(H, "Single key/value pair exceeds page size")
           ELSE Call("add_chunks",
                     <<H2, id, n - c.nkeychunk, buf,
                       c.ptr_start, keysize_buf - c.keychunk,
                       valuesize_buf - c.valuechunk,
                       alignsize_buf - chunksize, INTMAX>>)
      ELSE [PutKV(H, id, [kv EXCEPT !.nkey = @ + n,
                                    !.keysize = @ + keysize_buf,
                                    !.valuesize = @ + valuesize_buf,
                                    !.alignsize = @ + alignsize_buf])
              EXCEPT !.mem[kv.page] =
                WriteBytes(@, kv.alignsize, ReadBytes(buf, ptr, alignsize_buf))]

\* the loop of KeyValue::add(int n, char *buf, uint64_t keysize_buf,
\* uint64_t valuesize_buf, uint64_t alignsize_buf), from offset ptr of buf
add_chunks(H, id, n, buf, ptr, keysize_buf, valuesize_buf, alignsize_buf, nlimit) ==
  LET kv == H.kvs[id]
      ptr_begin == ptr
      ptr_end   == ptr_begin + (kv.pagesize - kv.alignsize)
      c  == Call("ScanChunk", <<kv, buf, ptr, ptr_end, 0, 0, 0, nlimit>>)
      chunksize == c.ptr_start - ptr_begin
      H1 == [PutKV(H, id, [kv EXCEPT !.nkey = @ + c.nkeychunk,
                                     !.keysize = @ + c.keychunk,
                                     !.valuesize = @ + c.valuechunk,
                                     !.alignsize = @ + chunksize])
               EXCEPT !.mem[kv.page] =
                 WriteBytes(@, kv.alignsize, ReadBytes(buf, ptr_begin, chunksize))]
  IN  IF ~OK(H) THEN H
      ELSE IF kv.alignsize + alignsize_buf > kv.pagesize \/ n > nlimit
      THEN IF c.kvbytes > kv.pagesize
           THEN Fatal(H, "Single key/value pair exceeds page size")
           ELSE Call("add_chunks",
                     <<Call("spill_page", <<H1, id>>), id, n - c.nkeychunk, buf,
                       c.ptr_start, keysize_buf - c.keychunk,
                       valuesize_buf - c.valuechunk,
                       alignsize_buf - chunksize, INTMAX>>)
      ELSE [PutKV(H, id, [kv EXCEPT !.nkey = @ + n,
                                    !.keysize = @ + keysize_buf,
                                    !.valuesize = @ + valuesize_buf,
                                    !.alignsize = @ + alignsize_buf])
              EXCEPT !.mem[kv.page] =
                WriteBytes(@, kv.alignsize, ReadBytes(buf, ptr, alignsize_buf))]

\* KeyValue::add(int n, char *buf, uint64_t, uint64_t, uint64_t)
KeyValue_add_sized(H, id, n, buf, keysize_buf, valuesize_buf, alignsize_buf) ==
  Call("add_chunks", <<H, id, n, buf, 0, keysize_buf, valuesize_buf,
                       alignsize_buf, INTMAX - H.kvs[id].nkey>>)

\* KeyValue::add(int n, char *buf) : determine the sizes, then add with sizes
KeyValue_add_buf(H, id, n, buf) ==
  LET kv == H.kvs[id]
      ds == Call("DecodeN",
                 <<buf, 0, n, kv.kalign - 1, kv.valign - 1, kv.talign - 1>>)
  IN  Call("KeyValue_add_sized",
           <<H, id, n, buf,
             SumSeq([i \in 1..Len(ds) |-> ds[i].keybytes]),
             SumSeq([i \in 1..Len(ds) |-> ds[i].valuebytes]),
             IF n <= 0 THEN 0 ELSE ds[Len(ds)].next>>)

\* add every record of a decoded list with the single-pair add
add_each(H, id, ds) ==
  IF ds = <<>> THEN H
  ELSE Call("add_each",
            <<Call("KeyValue_add", <<H, id, Head(ds).key, Head(ds).value>>),
              id, Tail(ds)>>)

\* kv->append(); kv->add(...) for each of ds; kv->complete()
\* (the pattern of mapreduce.cpp:321-323, 762-825)
append_add_complete(H, id, ds) ==
  Call("KeyValue_complete",
       <<Call("add_each", <<Call("KeyValue_append", <<H, id>>), id, ds>>), id>>)

\* KeyValue::add(int n, char *buf, int kalign_buf, int valign_buf)
KeyValue_add_aligned(H, id, n, buf, kalign_buf, valign_buf) ==
  Call("add_each",
       <<H, id,
         Call("DecodeN", <<buf, 0, n, kalign_buf - 1, valign_buf - 1,
                           Max(Max(kalign_buf, valign_buf), SIZEOFINT) - 1>>)>>)

\* the page loop of KeyValue::add(KeyValue *kv)  (keyvalue.cpp:336-343)
add_kv_pages(H, id, other, ipage, npage_other) ==
  IF ~OK(H) \/ ipage >= npage_other THEN H
  ELSE LET r  == Call("KeyValue_request_page", <<H, other, ipage>>)
           me == r.H.kvs[id]
           ot == r.H.kvs[other]
           page_other == r.H.mem[ot.page]
           H1 == IF me.kalign = ot.kalign /\ me.valign = ot.valign
                 THEN Call("KeyValue_add_sized",
                           <<r.H, id, r.nkey, page_other,
                             r.keysize, r.valuesize, r.alignsize>>)
                 ELSE Call("KeyValue_add_aligned",
                           <<r.H, id, r.nkey, page_other, ot.kalign, ot.valign>>)
       IN  Call("add_kv_pages", <<H1, id, other, ipage + 1, npage_other>>)

\* KeyValue::add(KeyValue *kv)
KeyValue_add_kv(H, id, other) ==
  IF ~OK(H) THEN H
  ELSE IF other = id THEN Fatal(H, "Cannot perform KeyValue add on self")
  ELSE Call("add_kv_pages", <<H, id, other, 0, H.kvs[other].npage>>)

\* the page loop of KeyValue::copy (keyvalue.cpp:120-125); my page pointer
\* is the other KV's page while it runs
copy_pages(H, id, other, ipage, npage_other) ==
  IF ipage >= npage_other - 1 THEN H
  ELSE LET r  == Call("KeyValue_request_page", <<H, other, ipage>>)
           kv == [r.H.kvs[id] EXCEPT !.nkey = r.nkey, !.keysize = r.keysize,
                                     !.valuesize = r.valuesize,
                                     !.alignsize = r.alignsize]
           H1 == Call("write_page",
                      <<PutKV(r.H, id, Call("create_page", <<kv>>)), id>>)
       IN  Call("copy_pages",
                <<PutKV(H1, id, [H1.kvs[id] EXCEPT !.npage = @ + 1]),
                  id, other, ipage + 1, npage_other>>)

\* KeyValue::copy
KeyValue_copy(H, id, other) ==
  IF ~OK(H) THEN H
  ELSE IF other = id THEN Fatal(H, "Cannot perform KeyValue copy on self")
  ELSE
    LET page_hold   == H.kvs[id].page
        npage_other == H.kvs[other].npage
        H1 == Call("copy_pages",
                   <<PutKV(H, id, [H.kvs[id] EXCEPT !.page = H.kvs[other].page]),
                     id, other, 0, npage_other>>)
        r  == Call("KeyValue_request_page", <<H1, other, npage_other - 1>>)
        kv == [r.H.kvs[id] EXCEPT !.nkey = r.nkey, !.keysize = r.keysize,
                                  !.valuesize = r.valuesize,
                                  !.alignsize = r.alignsize]
        H3 == Call("KeyValue_complete",
                   <<[PutKV(r.H, id, kv) EXCEPT !.mem[page_hold] =
                        WriteBytes(@, 0, ReadBytes(r.H.mem[kv.page], 0,
                                                   r.alignsize))],
                     id>>)
    IN  PutKV(H3, id, [H3.kvs[id] EXCEPT !.page = page_hold])

\* a full iteration over a completed KV, as every driver loop does it:
\* request_info, then request_page(0..npage-1), decoding nkey pairs of each
\* page with the reader's alignment masks.  Returns the heap after the
\* iteration and the decoded pairs in order.
iterate_pages(H, id, ipage, npage, acc) ==
  IF ipage >= npage THEN [H |-> H, recs |-> acc]
  ELSE LET r  == Call("KeyValue_request_page", <<H, id, ipage>>)
           kv == r.H.kvs[id]
           ds == Call("DecodeN", <<r.H.mem[kv.page], 0, r.nkey,
                                   kv.kalign - 1, kv.valign - 1, kv.talign - 1>>)
       IN  Call("iterate_pages",
                <<r.H, id, ipage + 1, npage,
                  acc \o [i \in 1..Len(ds) |-> Rec(ds[i].key, ds[i].value)]>>)

KeyValue_iterate(H, id) ==
  Call("iterate_pages", <<H, id, 0, H.kvs[id].npage, <<>> >>)

(***************************************************************************)
(* KeyMultiValue.  A KMV is a paged container like a KV (one working page, *)
(* page descriptors, a spill file); its pages hold KMV pairs               *)
(*   [keybytes][mvaluebytes][nvalues][valuesizes[nvalues]] key, multivalue *)
(* and, for a pair that does not fit one page, a header pair with          *)
(* nvalues = -(number of blocks) followed by one page per block            *)
(*   [nvalues][valuesizes[nvalues]] values.                                *)
(* KMV objects live in the same object table as KV objects.                *)
(***************************************************************************)
\* the name of the spill file of a KeyMultiValue: kind and counter
KMVFile(counter) == <<"kmv", counter>>

\* the lengths of the byte strings of a list
RECURSIVE Lens(_)
Lens(vs) == IF vs = <<>> THEN <<>> ELSE <<Len(Head(vs))>> \o Lens(Tail(vs))

\* the bytes of an int array
RECURSIVE IntsBytes(_)
IntsBytes(ns) ==
  IF ns = <<>> THEN <<>> ELSE IntBytes(Head(ns)) \o IntsBytes(Tail(ns))

\* n ints read from offset off of buf
RECURSIVE ReadInts(_, _, _)
ReadInts(buf, off, n) ==
  IF n <= 0 THEN <<>>
  ELSE <<ReadInt(buf, off)>> \o ReadInts(buf, off + SIZEOFINT, n - 1)

\* the byte strings of the given lengths packed from offset off of buf
RECURSIVE SplitBytes(_, _, _)
SplitBytes(buf, off, sizes) ==
  IF sizes = <<>> THEN <<>>
  ELSE <<ReadBytes(buf, off, Head(sizes))>>
         \o SplitBytes(buf, off + Head(sizes), Tail(sizes))

\* KeyMultiValue::KeyMultiValue(comm, memblock, memsize, kalign, valign, counter)
KeyMultiValue_new(memblock, memsize, memkalign, memvalign, counter) ==
  [nkmv |-> 0] @@
  KeyValue_new(memblock, memsize, memkalign, memvalign, KMVFile(counter))

\* decode the KMV pair at offset ptr of a page, as the loops of reduce,
\* compress and sort_multivalues do (mapreduce.cpp:1371-1398)
KMVDecodeAt(buf, ptr, kalignm1, valignm1, talignm1) ==
  LET keybytes    == ReadInt(buf, ptr)
      mvaluebytes == ReadInt(buf, ptr + SIZEOFINT)
      nvalues     == ReadInt(buf, ptr + 2 * SIZEOFINT)
      sptr == ptr + 3 * SIZEOFINT
      kptr == ROUNDUP(sptr + Max(nvalues, 0) * SIZEOFINT, kalignm1)
      vptr == ROUNDUP(kptr + keybytes, valignm1)
      nptr == ROUNDUP(vptr + mvaluebytes, talignm1)
      valuesizes == ReadInts(buf, sptr, nvalues)
  IN  [keybytes |-> keybytes, mvaluebytes |-> mvaluebytes, nvalues |-> nvalues,
       valuesizes |-> valuesizes,
       key |-> ReadBytes(buf, kptr, keybytes),
       values |-> SplitBytes(buf, vptr, valuesizes),
       kptr |-> kptr, vptr |-> vptr,
       next |-> IF nvalues > 0 THEN nptr ELSE kptr]

\* decode the block at the head of a page (mapreduce.cpp:1472-1479)
KMVBlockAt(buf, valignm1) ==
  LET nvalue == ReadInt(buf, 0)
      valuesizes == ReadInts(buf, SIZEOFINT, nvalue)
      vptr == ROUNDUP((nvalue + 1) * SIZEOFINT, valignm1)
  IN  [nvalue |-> nvalue, valuesizes |-> valuesizes,
       values |-> SplitBytes(buf, vptr, valuesizes), vptr |-> vptr]

\* how many of the values of the given sizes, after the first n, one block
\* page holds
BlockTake(pagesize, valignm1, sizes, n, bytes) ==
  IF n >= Len(sizes) THEN n
  ELSE IF ROUNDUP((n + 2) * SIZEOFINT, valignm1) + bytes + sizes[n + 1] > pagesize
       THEN n
  ELSE Call("BlockTake", <<pagesize, valignm1, sizes, n + 1, bytes + sizes[n + 1]>>)

\* the number of block pages the values of the given sizes need (-1 if a
\* single value does not fit a page)
BlockCount(pagesize, valignm1, sizes) ==
  IF sizes = <<>> THEN 0
  ELSE LET n == Call("BlockTake", <<pagesize, valignm1, sizes, 0, 0>>)
           m == Call("BlockCount",
                     <<pagesize, valignm1, SubSeq(sizes, n + 1, Len(sizes))>>)
       IN  IF n = 0 \/ m < 0 THEN -1 ELSE m + 1

\* one block page per group of values, each written to the file
KMV_add_blocks(H, id, values) ==
  IF ~OK(H) \/ values = <<>> THEN H
  ELSE LET kmv == H.kvs[id]
           n   == Call("BlockTake",
                       <<kmv.pagesize, kmv.valign - 1, Lens(values), 0, 0>>)
           vs  == SubSeq(values, 1, n)
           vptr  == ROUNDUP((n + 1) * SIZEOFINT, kmv.valign - 1)
           bytes == SumSeq(Lens(vs))
           H1  == [PutKV(H, id,
                         [kmv EXCEPT !.nkey = 0, !.keysize = 0,
                                     !.valuesize = bytes,
                                     !.alignsize =
                                       ROUNDUP(vptr + bytes, kmv.talign - 1)])
                     EXCEPT !.mem[kmv.page] =
                       WriteBytes(WriteBytes(@, 0, IntsBytes(<<n>> \o Lens(vs))),
                                  vptr, Flatten(vs))]
       IN  Call("KMV_add_blocks",
                <<Call("spill_page", <<H1, id>>), id,
                  SubSeq(values, n + 1, Len(values))>>)

\* a pair that does not fit one page: the header pair on a page of its
\* own, then the block pages
KMV_add_split(H, id, key, values) ==
  LET H0  == IF H.kvs[id].alignsize = 0 THEN H ELSE Call("spill_page", <<H, id>>)
      kmv == H0.kvs[id]
      nblock == Call("BlockCount", <<kmv.pagesize, kmv.valign - 1, Lens(values)>>)
      kptr == ROUNDUP(3 * SIZEOFINT, kmv.kalign - 1)
      nptr == ROUNDUP(kptr + Len(key), kmv.talign - 1)
      H1  == [PutKV(H0, id, [kmv EXCEPT !.nkey = 1, !.keysize = Len(key),
                                        !.valuesize = 0, !.alignsize = nptr])
                EXCEPT !.mem[kmv.page] =
                  WriteBytes(
                    WriteBytes(@, 0, IntsBytes(<<Len(key), SumSeq(Lens(values)),
                                                 -nblock>>)),
                    kptr, key)]
  IN  IF nblock < 0 \/ nptr > kmv.pagesize
      THEN Fatal(H, "Single key/multivalue pair exceeds page size")
      ELSE Call("KMV_add_blocks", <<Call("spill_page", <<H1, id>>), id, values>>)

\* add one KMV pair: key and its list of values
KMV_add(H, id, key, values) ==
  LET kmv  == H.kvs[id]
      nvalues == Len(values)
      mvaluebytes == SumSeq(Lens(values))
      iptr == kmv.alignsize
      kptr == ROUNDUP(iptr + (3 + nvalues) * SIZEOFINT, kmv.kalign - 1)
      vptr == ROUNDUP(kptr + Len(key), kmv.valign - 1)
      nptr == ROUNDUP(vptr + mvaluebytes, kmv.talign - 1)
  IN  IF ~OK(H) THEN H
      ELSE IF nptr - iptr > kmv.pagesize
        THEN Call("KMV_add_split", <<H, id, key, values>>)
      ELSE IF nptr > kmv.pagesize
        THEN Call("KMV_add", <<Call("spill_page", <<H, id>>), id, key, values>>)
      ELSE [PutKV(H, id, [kmv EXCEPT !.nkey = @ + 1,
                                     !.keysize = @ + Len(key),
                                     !.valuesize = @ + mvaluebytes,
                                     !.alignsize = nptr])
              EXCEPT !.mem[kmv.page] =
                WriteBytes(
                  WriteBytes(
                    WriteBytes(@, iptr,
                               IntsBytes(<<Len(key), mvaluebytes, nvalues>>
                                           \o Lens(values))),
                    kptr, key),
                  vptr, Flatten(values))]

\* add the KMV pairs of a list
KMV_add_each(H, id, pairs) ==
  IF pairs = <<>> THEN H
  ELSE Call("KMV_add_each",
            <<Call("KMV_add", <<H, id, Head(pairs).key, Head(pairs).values>>),
              id, Tail(pairs)>>)

\* KeyMultiValue::complete
KMV_complete(H, id) ==
  LET H1 == Call("KeyValue_complete", <<H, id>>)
  IN  IF ~OK(H1) THEN H1
      ELSE PutKV(H1, id, [H1.kvs[id] EXCEPT !.nkmv = H1.kvs[id].nkv])

\* KeyMultiValue::request_page(ipage, writeflag) : returns the heap after the
\* call and nkey of the page
KMV_request_page(H, id, ipage, writeflag) ==
  LET H1 == IF H.kvs[id].fileflag = 1
            THEN Call("read_page", <<H, id, ipage, writeflag>>) ELSE H
      kmv == H1.kvs[id]
  IN  [H |-> IF OK(H1) /\ ipage = kmv.npage - 1 /\ kmv.fileflag = 1
                /\ writeflag = 0
             THEN PutKV(H1, id, [kmv EXCEPT !.fp = FPNULL])
             ELSE H1,
       nkey |-> kmv.pages[ipage + 1].nkey]

\* KeyMultiValue::overwrite_page(ipage) : write the working page back to
\* where page ipage is in the file
KMV_overwrite_page(H, id, ipage) ==
  LET kmv == H.kvs[id]
      pg  == kmv.pages[ipage + 1]
      H1  == IF kmv.fileflag = 1 /\ kmv.fp # "rb" /\ kmv.filename \in DOMAIN H.fs
             THEN [H EXCEPT !.fs[kmv.filename] =
                     FileWrite(@, pg.fileoffset,
                               ReadBytes(H.mem[kmv.page], 0, pg.filesize))]
             ELSE H
  IN  IF ipage = kmv.npage - 1 /\ kmv.fileflag = 1
      THEN PutKV(H1, id, [kmv EXCEPT !.fp = FPNULL])
      ELSE H1

\* the pairs (key, list of values) of a list of KV pairs grouped by key:
\* keys in the order of their first pair, values in the order of the pairs
RECURSIVE GroupByKey(_, _)
GroupByKey(recs, acc) ==
  IF recs = <<>> THEN acc
  ELSE LET r == Head(recs)
           hit == {i \in 1..Len(acc) : acc[i].key = r.key}
       IN  GroupByKey(Tail(recs),
             IF hit = {}
             THEN Append(acc, [key |-> r.key, values |-> <<r.value>>])
             ELSE LET i == CHOOSE i \in hit : TRUE
                  IN  [acc EXCEPT ![i].values = Append(@, r.value)])

\* one pair per KV pair, with the value as the only value
RECURSIVE OnePerPair(_)
OnePerPair(recs) ==
  IF recs = <<>> THEN <<>>
  ELSE <<[key |-> Head(recs).key, values |-> <<Head(recs).value>>]>>
         \o OnePerPair(Tail(recs))

\* key, value, key, value, ... of a list of KV pairs
RECURSIVE KeysAndValues(_)
KeysAndValues(recs) ==
  IF recs = <<>> THEN <<>>
  ELSE <<Head(recs).key, Head(recs).value>> \o KeysAndValues(Tail(recs))

\* KeyMultiValue::convert(kv, scratch, scratchsize)
KMV_convert(H, id, kv) ==
  LET r == Call("KeyValue_iterate", <<H, kv>>)
  IN  Call("KMV_add_each", <<r.H, id, GroupByKey(r.recs, <<>>)>>)

\* KeyMultiValue::clone(kv)
KMV_clone(H, id, kv) ==
  LET r == Call("KeyValue_iterate", <<H, kv>>)
  IN  Call("KMV_add_each", <<r.H, id, OnePerPair(r.recs)>>)

\* KeyMultiValue::collapse(key, keybytes, kv)
KMV_collapse(H, id, key, kv) ==
  LET r == Call("KeyValue_iterate", <<H, kv>>)
  IN  Call("KMV_add", <<r.H, id, key, KeysAndValues(r.recs)>>)

\* the page loop of KeyMultiValue::copy
KMV_copy_pages(H, id, other, ipage, npage_other) ==
  IF ~OK(H) \/ ipage >= npage_other THEN H
  ELSE LET r   == Call("KMV_request_page", <<H, other, ipage, 0>>)
           pg  == r.H.kvs[other].pages[ipage + 1]
           kmv == r.H.kvs[id]
           H1  == [PutKV(r.H, id, [kmv EXCEPT !.nkey = pg.nkey,
                                             !.keysize = pg.keysize,
                                             !.valuesize = pg.valuesize,
                                             !.alignsize = pg.alignsize])
                     EXCEPT !.mem[kmv.page] =
                       WriteBytes(@, 0, ReadBytes(r.H.mem[r.H.kvs[other].page],
                                                  0, pg.alignsize))]
       IN  Call("KMV_copy_pages",
                <<IF ipage < npage_other - 1
                  THEN Call("spill_page", <<H1, id>>) ELSE H1,
                  id, other, ipage + 1, npage_other>>)

\* KeyMultiValue::copy(kmv)
KMV_copy(H, id, other) ==
  Call("KMV_complete",
       <<Call("KMV_copy_pages", <<H, id, other, 0, H.kvs[other].npage>>), id>>)

(***************************************************************************)
(* MapReduce (src/new/mapreduce.cpp).  Every method takes the heap H of    *)
(* the calling rank and the handle e of the engine and returns the heap    *)
(* after the call; H.ret is the local count the method hands to            *)
(* MPI_Allreduce for its return value.                                     *)
(***************************************************************************)
\* the function f without x in its domain
Without(f, x) == [i \in (DOMAIN f) \ {x} |-> f[i]] @@ <<>>

\* KeyValue::~KeyValue and KeyMultiValue::~KeyMultiValue; delete of a null
\* pointer does nothing
KeyValue_delete(H, id) ==
  IF id = NULL THEN H
  ELSE [H EXCEPT !.kvs = Without(@, id),
                 !.fs = IF H.kvs[id].fileflag = 1
                        THEN Without(@, H.kvs[id].filename) ELSE @]

\* MapReduce::MapReduce(MPI_Comm) : the new engine gets handle e
MapReduce_new(H, e) ==
  [H EXCEPT !.instances = @ + 1,
            !.mr = (e :> [instance |-> H.instances + 1,
                          mapstyle |-> 0, memsize |-> MBYTES,
                          keyalign |-> ALIGNKV, valuealign |-> ALIGNKV,
                          blockvalid |-> 0, allocated |-> 0,
                          kv |-> NULL, kmv |-> NULL,
                          kalign |-> 0, valign |-> 0, talign |-> 0,
                          memquarter |-> 0, memhalf |-> 0,
                          memavail |-> <<>>, memtoggle |-> 0,
                          nblock_kmv |-> 0, block_header_page |-> 0]) @@ @]

\* mr = new MapReduce(comm); mr->memsize = MemSize;
NewEngine(H, e) == [MapReduce_new(H, e) EXCEPT !.mr[e].memsize = MemSize]

\* mr->memsize = memsize; mr->keyalign = keyalign; mr->valuealign = valuealign;
MR_set(H, e, memsize, keyalign, valuealign) ==
  [H EXCEPT !.mr[e].memsize = memsize, !.mr[e].keyalign = keyalign,
            !.mr[e].valuealign = valuealign]

\* tmp = 1; while (tmp < n) tmp *= 2;
RECURSIVE PowCeil(_, _)
PowCeil(tmp, n) == IF tmp < n THEN PowCeil(2 * tmp, n) ELSE tmp

\* MapReduce::allocate : the quarters mem0 and mem1 of engine e are the
\* memory blocks <<e, 0>> and <<e, 1>>.  memsize * 1024*1024 is a product
\* of ints: if it does not fit, the behaviour is undefined and the build
\* (H.ub) either wraps or traps; a wrapped negative product is a size_t
\* above 2^63, which no allocation satisfies
allocate(H, e) ==
  LET m == H.mr[e]
      nbytes == MulInt(m.memsize, MByte)
      H1 == [H EXCEPT !.mem = (<<e, 0>> :> Zeros(nbytes \div 4))
                               @@ (<<e, 1>> :> Zeros(nbytes \div 4)) @@ @,
                      !.mr[e].kalign = m.keyalign,
                      !.mr[e].valign = m.valuealign]
  IN  IF ~OK(H) THEN H
      ELSE IF m.memsize <= 0 THEN Fatal(H, "Invalid memsize setting")
      ELSE IF MulOverflows(m.memsize, MByte) /\ H.ub = "trap"
        THEN Fatal(H, "Integer overflow trap")
      ELSE IF nbytes < 0 THEN Fatal(H, "Failed to allocate memory")
      ELSE IF PowCeil(1, m.keyalign) # m.keyalign
              \/ PowCeil(1, m.valuealign) # m.valuealign
        THEN Fatal(H1, "Invalid alignment setting")
      ELSE [H1 EXCEPT !.mr[e].talign =
                        Max(Max(m.keyalign, m.valuealign), SIZEOFINT),
                      !.mr[e].memquarter = nbytes \div 4,
                      !.mr[e].memhalf = nbytes \div 2,
                      !.mr[e].memavail = <<e, 0>>,
                      !.mr[e].memtoggle = 0,
                      !.mr[e].allocated = 1]

\* a memswap that leaves memavail where it is
memswap_stuck(H, e) == H

\* MapReduce::memswap
memswap(H, e) ==
  IF H.mr[e].memavail = <<e, 0>>
  THEN [H EXCEPT !.mr[e].memavail = <<e, 1>>, !.mr[e].memtoggle = 1]
  ELSE [H EXCEPT !.mr[e].memavail = <<e, 0>>, !.mr[e].memtoggle = 0]

\* new KeyValue(comm,memavail,memquarter,memtoggle,kalign,valign,instances);
\* memswap();   the new object gets handle id
new_kv(H, e, id) ==
  LET m == H.mr[e]
  IN  memswap(PutKV(H, id, KeyValue_new(m.memavail, m.memquarter, m.kalign,
                                        m.valign,
                                        KVFile(m.memtoggle, H.instances))),
              e)

\* new KeyMultiValue(comm,memavail,memquarter,kalign,valign,instances);
\* memswap();   the new object gets handle id
new_kmv(H, e, id) ==
  LET m == H.mr[e]
  IN  memswap(PutKV(H, id, KeyMultiValue_new(m.memavail, m.memquarter, m.kalign,
                                             m.valign, H.instances)),
              e)

\* the local count handed to MPI_Allreduce: kv->nkv or kmv->nkmv
RetKV(H, e) == IF OK(H) THEN [H EXCEPT !.ret = H.kvs[H.mr[e].kv].nkv] ELSE H
RetKMV(H, e) == IF OK(H) THEN [H EXCEPT !.ret = H.kvs[H.mr[e].kmv].nkmv] ELSE H

(***************************************************************************)
(* Callbacks of the application                                            *)
(***************************************************************************)
\* appmap(itask,kv,ptr) : the pairs task itask emits
MapEmits(fn, itask) ==
  CASE fn = "pair" -> <<Rec(<<1 + (itask % 2)>>, <<itask + 1>>)>>
    [] fn = "same" -> <<Rec(<<1>>, <<itask + 1>>)>>
    [] fn = "empty" -> <<Rec(<<>>, <<>>)>>
    [] fn = "lens"  -> IF itask % 2 = 0 THEN <<Rec(<<1>>, <<9 - itask, 1>>)>>
                       ELSE <<Rec(<<1>>, <<itask>>)>>
    [] fn = "sizes" -> IF itask = 0 THEN <<Rec(<<>>, <<>>)>>
                       ELSE IF itask = 1 THEN <<Rec(<<1>>, <<>>)>>
                       ELSE <<Rec(<<2>>, <<itask + 1>>)>>
    [] OTHER -> <<>>

\* appmap(itask,key,keybytes,value,valuebytes,kv,ptr) : the pairs emitted
\* for one pair of the source
MapKVEmits(fn, itask, key, value) ==
  CASE fn = "swap" -> <<Rec(value, key)>>
    [] fn = "same" -> <<Rec(key, value)>>
    [] OTHER -> <<>>

\* int hash(char *key, int keybytes) of the application
UserHash(fn, key) ==
  CASE fn = "first" -> IF key = <<>> THEN 0 ELSE key[1]
    [] fn = "neg"   -> IF key = <<>> THEN -1 ELSE -key[1]
    [] OTHER -> 0

\* int compare(char *a, int lena, char *b, int lenb) of the application:
\* byte strings in lexicographic order
RECURSIVE CompareBytes(_, _)
CompareBytes(a, b) ==
  IF a = <<>> THEN (IF b = <<>> THEN 0 ELSE -1)
  ELSE IF b = <<>> THEN 1
  ELSE IF Head(a) < Head(b) THEN -1
  ELSE IF Head(a) > Head(b) THEN 1
  ELSE CompareBytes(Tail(a), Tail(b))

(***************************************************************************)
(* map                                                                     *)
(***************************************************************************)
RECURSIVE TaskList(_, _, _, _, _, _)
\* chunks that include their upper end
TaskList_upto(me, nprocs, mapstyle, nmap, assign, itask) ==
  IF itask >= nmap THEN <<>>
  ELSE (IF \/ nprocs = 1
           \/ mapstyle = 0 /\ (me * nmap) \div nprocs <= itask
                           /\ itask <= ((me + 1) * nmap) \div nprocs
           \/ mapstyle = 1 /\ itask >= me /\ (itask - me) % nprocs = 0
           \/ mapstyle = 2 /\ me # 0 /\ assign[itask + 1] = me
        THEN <<itask>> ELSE <<>>)
       \o TaskList(me, nprocs, mapstyle, nmap, assign, itask + 1)

\* the tasks of rank me in the order it runs them (mapreduce.cpp:770-823);
\* assign[i+1] is the worker that the master hands task i to (mapstyle 2)
TaskList(me, nprocs, mapstyle, nmap, assign, itask) ==
  IF itask >= nmap THEN <<>>
  ELSE (IF \/ nprocs = 1
           \/ mapstyle = 0 /\ (me * nmap) \div nprocs <= itask
                           /\ itask < ((me + 1) * nmap) \div nprocs
           \/ mapstyle = 1 /\ itask >= me /\ (itask - me) % nprocs = 0
           \/ mapstyle = 2 /\ me # 0 /\ assign[itask + 1] = me
        THEN <<itask>> ELSE <<>>)
       \o TaskList(me, nprocs, mapstyle, nmap, assign, itask + 1)

\* for (itask ...) appmap(itask,kv,appptr);
run_tasks(H, id, fn, tasks) ==
  IF tasks = <<>> THEN H
  ELSE Call("run_tasks",
            <<Call("add_each", <<H, id, MapEmits(fn, Head(tasks))>>),
              id, fn, Tail(tasks)>>)

\* delete kv; kv = NULL;
drop_kv(H, e) == [KeyValue_delete(H, H.mr[e].kv) EXCEPT !.mr[e].kv = NULL]

\* the KMV is kept
drop_kmv_keep(H, e) == H

\* delete kmv; kmv = NULL;
drop_kmv(H, e) == [KeyValue_delete(H, H.mr[e].kmv) EXCEPT !.mr[e].kmv = NULL]

\* the KV that map fills (mapreduce.cpp:751-763): a new one, or with addflag
\* the one the engine has, reopened
map_kv(H, e, addflag) ==
  IF ~OK(H) THEN H
  ELSE IF addflag = 0
  THEN LET D == KeyValue_delete(H, H.mr[e].kv)
       IN  [new_kv(D, e, NewId(DOMAIN D.kvs)) EXCEPT !.mr[e].kv = NewId(DOMAIN D.kvs)]
  ELSE IF H.mr[e].kv = NULL
  THEN [new_kv(H, e, NewId(DOMAIN H.kvs)) EXCEPT !.mr[e].kv = NewId(DOMAIN H.kvs)]
  ELSE Call("KeyValue_append", <<H, H.mr[e].kv>>)

\* if (!allocated) allocate();
ensure_allocated(H, e) ==
  IF H.mr[e].allocated = 0 THEN Call("allocate", <<H, e>>) ELSE H

\* map refuses an engine that has a KMV
map_begin_strict(H, e, addflag) ==
  IF H.mr[e].kmv # NULL THEN Fatal(H, "Cannot map with KeyMultiValue")
  ELSE Call("map_kv", <<Call("ensure_allocated", <<H, e>>), e, addflag>>)

\* the start of map (mapreduce.cpp:748-763):
\* if (!allocated) allocate(); delete kmv; kmv = NULL; then the KV
map_begin(H, e, addflag) ==
  Call("map_kv", <<Call("drop_kmv", <<Call("ensure_allocated", <<H, e>>), e>>),
                   e, addflag>>)

\* MapReduce::map(int nmap, void (*appmap)(int, KeyValue *, void *),
\*                void *appptr, int addflag)
MR_map(H, e, nmap, fn, addflag, assign) ==
  LET H3 == map_begin(H, e, addflag)
      m  == H3.mr[e]
      H4 == Call("run_tasks",
                 <<H3, m.kv, fn,
                   TaskList(H.me, H.nprocs, m.mapstyle, nmap, assign, 0)>>)
  IN  IF ~OK(H3) THEN H3
      ELSE IF H.nprocs # 1 /\ m.mapstyle \notin {0, 1, 2}
        THEN Fatal(H3, "Invalid mapstyle setting")
      ELSE RetKV(Call("KeyValue_complete", <<H4, m.kv>>), e)

(***************************************************************************)
(* convert, clone, collapse                                                *)
(***************************************************************************)
\* MapReduce::convert
MR_convert(H, e) ==
  IF ~OK(H) THEN H
  ELSE IF H.mr[e].kv = NULL THEN Fatal(H, "Cannot convert without KeyValue")
  ELSE LET id == NewId(DOMAIN H.kvs)
           H1 == [new_kmv(H, e, id) EXCEPT !.mr[e].kmv = id]
           H2 == Call("KMV_complete",
                      <<Call("KMV_convert", <<H1, id, H.mr[e].kv>>), id>>)
       IN  RetKMV(drop_kv(H2, e), e)

\* MapReduce::clone
MR_clone(H, e) ==
  IF ~OK(H) THEN H
  ELSE IF H.mr[e].kv = NULL THEN Fatal(H, "Cannot clone without KeyValue")
  ELSE LET id == NewId(DOMAIN H.kvs)
           H1 == [new_kmv(H, e, id) EXCEPT !.mr[e].kmv = id]
           H2 == Call("KMV_complete",
                      <<Call("KMV_clone", <<H1, id, H.mr[e].kv>>), id>>)
       IN  RetKMV(drop_kv(H2, e), e)

\* MapReduce::collapse(char *key, int keybytes)
MR_collapse(H, e, key) ==
  IF ~OK(H) THEN H
  ELSE IF H.mr[e].kv = NULL THEN Fatal(H, "Cannot collapse without KeyValue")
  ELSE LET id == NewId(DOMAIN H.kvs)
           H1 == [new_kmv(H, e, id) EXCEPT !.mr[e].kmv = id]
           H2 == Call("KMV_complete",
                      <<Call("KMV_collapse", <<H1, id, key, H.mr[e].kv>>), id>>)
       IN  RetKMV(drop_kv(H2, e), e)

(***************************************************************************)
(* reduce, compress                                                        *)
(***************************************************************************)
\* MapReduce::multivalue_blocks : returns the heap and the result
multivalue_blocks(H, e) ==
  [H |-> IF H.mr[e].blockvalid = 0
         THEN Fatal(H, "Invalid call to multivalue_block()") ELSE H,
   n |-> H.mr[e].nblock_kmv]

\* a block access that loads the page iblock pages after the header page
multivalue_block_off(H, e, iblock) ==
  LET m == H.mr[e]
      r == Call("KMV_request_page", <<H, m.kmv, m.block_header_page + iblock, 0>>)
      b == Call("KMVBlockAt", <<r.H.mem[r.H.kvs[m.kmv].page], m.valign - 1>>)
  IN  IF m.blockvalid = 0 \/ iblock < 0 \/ iblock >= m.nblock_kmv
      THEN [H |-> Fatal(H, "Invalid call to multivalue_blocks()"),
            nvalue |-> 0, values |-> <<>>]
      ELSE [H |-> r.H, nvalue |-> b.nvalue, values |-> b.values]

\* MapReduce::multivalue_block(iblock, &multivalue, &valuesizes) : returns
\* the heap, the number of values of the block and the values
multivalue_block(H, e, iblock) ==
  LET m == H.mr[e]
      r == Call("KMV_request_page", <<H, m.kmv, m.block_header_page + iblock + 1, 0>>)
      b == Call("KMVBlockAt", <<r.H.mem[r.H.kvs[m.kmv].page], m.valign - 1>>)
  IN  IF m.blockvalid = 0 \/ iblock < 0 \/ iblock >= m.nblock_kmv
      THEN [H |-> Fatal(H, "Invalid call to multivalue_blocks()"),
            nvalue |-> 0, values |-> <<>>]
      ELSE [H |-> r.H, nvalue |-> b.nvalue, values |-> b.values]

\* the number of values in blocks iblock.. of the current pair, counted as
\* a callback does: multivalue_block(iblock) for every block
count_blocks(H, e, iblock, nblock, acc) ==
  IF ~OK(H) \/ iblock >= nblock THEN [H |-> H, n |-> acc]
  ELSE LET b == Call("multivalue_block", <<H, e, iblock>>)
       IN  Call("count_blocks", <<b.H, e, iblock + 1, nblock, acc + b.nvalue>>)

\* mr->multivalue_blocks() and mr->multivalue_block(iblock,...) called by the
\* application between operators
MR_multivalue_blocks(H, e) == Call("multivalue_blocks", <<H, e>>).H
MR_multivalue_block(H, e, iblock) == Call("multivalue_block", <<H, e, iblock>>).H

\* callbacks that call the block functions whatever pair they are given:
\*   "probe" emits (key, what multivalue_blocks() returns),
\*   "load" emits (key, the number of values multivalue_block(0) returns),
\*   "below" and "beyond" do so for multivalue_block(-1) and for
\*   multivalue_block(multivalue_blocks())
appprobe(H, e, fn, key) ==
  LET kv == H.mr[e].kv
      nb == Call("multivalue_blocks", <<H, e>>)
      b  == Call("multivalue_block",
                 <<H, e, IF fn = "load" THEN 0
                         ELSE IF fn = "below" THEN -1 ELSE H.mr[e].nblock_kmv>>)
  IN  IF fn = "probe" THEN Call("KeyValue_add", <<nb.H, kv, key, <<nb.n>> >>)
      ELSE Call("KeyValue_add", <<b.H, kv, key, <<b.nvalue>> >>)

\* appreduce(key,keybytes,multivalue,nvalues,valuesizes,kv,ptr) of the
\* application; multivalue is [null |-> TRUE] for a NULL pointer, and else
\* holds the values
\*   "count" emits (key, number of values), "first" emits (key, first value),
\*   "args" emits (key, nvalues and whether multivalue is NULL) and, if it is
\*   NULL, (key, what multivalue_blocks() returns)
appreduce(H, e, fn, key, multivalue, nvalues) ==
  LET kv == H.mr[e].kv
  IN  IF fn \in {"probe", "load"} \/ (fn \in {"below", "beyond"} /\ multivalue.null)
      THEN Call("appprobe", <<H, e, fn, key>>)
      ELSE IF ~multivalue.null
      THEN Call("KeyValue_add",
                <<H, kv, key,
                  IF fn = "count" THEN <<nvalues>>
                  ELSE IF fn = "args" THEN IntBytes(nvalues) \o <<0>>
                  ELSE multivalue.values[1]>>)
      ELSE LET nb == Call("multivalue_blocks", <<H, e>>)
               c  == Call("count_blocks", <<nb.H, e, 0, nb.n, 0>>)
               b  == Call("multivalue_block", <<nb.H, e, 0>>)
           IN  IF fn = "count"
               THEN Call("KeyValue_add", <<c.H, kv, key, <<c.n>> >>)
               ELSE IF fn = "args"
               THEN Call("KeyValue_add",
                         <<Call("KeyValue_add",
                                <<nb.H, kv, key, IntBytes(nvalues) \o <<1>> >>),
                           kv, key, IntBytes(nb.n) \o <<>> >>)
               ELSE Call("KeyValue_add",
                         <<b.H, kv, key,
                           IF b.values = <<>> THEN <<>> ELSE b.values[1]>>)

\* a pair loop that hands the number of blocks to the callback
reduce_pairs_count(H, e, fn, ipage, ptr, i, nkey) ==
  IF ~OK(H) \/ i >= nkey THEN [H |-> H, ipage |-> ipage]
  ELSE LET m == H.mr[e]
           d == Call("KMVDecodeAt", <<H.mem[H.kvs[m.kmv].page], ptr,
                            m.kalign - 1, m.valign - 1, m.talign - 1>>)
           B == [H EXCEPT !.mr[e].nblock_kmv = -d.nvalues,
                          !.mr[e].block_header_page = ipage,
                          !.mr[e].blockvalid = 1]
           A == Call("appreduce", <<B, e, fn, d.key, [null |-> TRUE], -d.nvalues>>)
       IN  IF d.nvalues > 0
           THEN Call("reduce_pairs",
                     <<Call("appreduce",
                            <<H, e, fn, d.key,
                              [null |-> FALSE, values |-> d.values], d.nvalues>>),
                       e, fn, ipage, d.next, i + 1, nkey>>)
           ELSE Call("reduce_pairs",
                     <<[A EXCEPT !.mr[e].blockvalid = 0],
                       e, fn, ipage + (-d.nvalues), d.next, i + 1, nkey>>)

\* a pair loop that leaves ipage alone after a block header
reduce_pairs_noskip(H, e, fn, ipage, ptr, i, nkey) ==
  IF ~OK(H) \/ i >= nkey THEN [H |-> H, ipage |-> ipage]
  ELSE LET m == H.mr[e]
           d == Call("KMVDecodeAt", <<H.mem[H.kvs[m.kmv].page], ptr,
                            m.kalign - 1, m.valign - 1, m.talign - 1>>)
           B == [H EXCEPT !.mr[e].nblock_kmv = -d.nvalues,
                          !.mr[e].block_header_page = ipage,
                          !.mr[e].blockvalid = 1]
           A == Call("appreduce", <<B, e, fn, d.key, [null |-> TRUE], d.nvalues>>)
       IN  IF d.nvalues > 0
           THEN Call("reduce_pairs",
                     <<Call("appreduce",
                            <<H, e, fn, d.key,
                              [null |-> FALSE, values |-> d.values], d.nvalues>>),
                       e, fn, ipage, d.next, i + 1, nkey>>)
           ELSE Call("reduce_pairs",
                     <<[A EXCEPT !.mr[e].blockvalid = 0],
                       e, fn, ipage, d.next, i + 1, nkey>>)

\* the loop over the pairs of one KMV page (mapreduce.cpp:1370-1402);
\* returns the heap and ipage, which a block header advances
reduce_pairs(H, e, fn, ipage, ptr, i, nkey) ==
  IF ~OK(H) \/ i >= nkey THEN [H |-> H, ipage |-> ipage]
  ELSE LET m == H.mr[e]
           d == Call("KMVDecodeAt", <<H.mem[H.kvs[m.kmv].page], ptr,
                            m.kalign - 1, m.valign - 1, m.talign - 1>>)
           B == [H EXCEPT !.mr[e].nblock_kmv = -d.nvalues,
                          !.mr[e].block_header_page = ipage,
                          !.mr[e].blockvalid = 1]
           A == Call("appreduce", <<B, e, fn, d.key, [null |-> TRUE], d.nvalues>>)
       IN  IF d.nvalues > 0
           THEN Call("reduce_pairs",
                     <<Call("appreduce",
                            <<H, e, fn, d.key,
                              [null |-> FALSE, values |-> d.values], d.nvalues>>),
                       e, fn, ipage, d.next, i + 1, nkey>>)
           ELSE Call("reduce_pairs",
                     <<[A EXCEPT !.mr[e].blockvalid = 0],
                       e, fn, ipage + (-d.nvalues), d.next, i + 1, nkey>>)

\* for (int ipage = 0; ipage < npage; ipage++) { nkey = kmv->request_page ...
reduce_pages(H, e, fn, ipage, npage) ==
  IF ~OK(H) \/ ipage >= npage THEN H
  ELSE LET r == Call("KMV_request_page", <<H, H.mr[e].kmv, ipage, 0>>)
           p == Call("reduce_pairs", <<r.H, e, fn, ipage, 0, 0, r.nkey>>)
       IN  Call("reduce_pages", <<p.H, e, fn, p.ipage + 1, npage>>)

\* the pages the loop of reduce and compress requests, in order
\* (mapreduce.cpp:1365-1366, 1402), from page ipage on
reduce_requests(H, e, fn, ipage, npage) ==
  IF ~OK(H) \/ ipage >= npage THEN <<>>
  ELSE LET r == Call("KMV_request_page", <<H, H.mr[e].kmv, ipage, 0>>)
           p == Call("reduce_pairs", <<r.H, e, fn, ipage, 0, 0, r.nkey>>)
       IN  <<ipage>> \o Call("reduce_requests", <<p.H, e, fn, p.ipage + 1, npage>>)

\* MapReduce::reduce
MR_reduce(H, e, fn) ==
  IF ~OK(H) THEN H
  ELSE IF H.mr[e].kmv = NULL
    THEN Fatal(H, "Cannot reduce without KeyMultiValue")
  ELSE LET id == NewId(DOMAIN H.kvs)
           H1 == [new_kv(H, e, id) EXCEPT !.mr[e].kv = id]
           H2 == Call("reduce_pages",
                      <<H1, e, fn, 0, H1.kvs[H1.mr[e].kmv].npage>>)
       IN  RetKV(drop_kmv(Call("KeyValue_complete", <<H2, id>>), e), e)

\* MapReduce::compress
MR_compress(H, e, fn) ==
  IF ~OK(H) THEN H
  ELSE IF H.mr[e].kv = NULL THEN Fatal(H, "Cannot compress without KeyValue")
  ELSE LET kmvid == NewId(DOMAIN H.kvs)
           H1 == [new_kmv(H, e, kmvid) EXCEPT !.mr[e].kmv = kmvid]
           H2 == Call("KMV_complete",
                      <<Call("KMV_convert", <<H1, kmvid, H.mr[e].kv>>), kmvid>>)
           D  == KeyValue_delete(H2, H2.mr[e].kv)
           id == NewId(DOMAIN D.kvs)
           H3 == [new_kv(D, e, id) EXCEPT !.mr[e].kv = id]
           H4 == Call("reduce_pages", <<H3, e, fn, 0, H3.kvs[kmvid].npage>>)
       IN  IF ~OK(H2) THEN H2
           ELSE RetKV(drop_kmv(Call("KeyValue_complete", <<H4, id>>), e), e)

(***************************************************************************)
(* sort_multivalues                                                        *)
(***************************************************************************)
\* the index array after qsort(order,nvalues,sizeof(int),compare_standalone):
\* insertion of x into the sorted list s; values[k+1] is the value with index k
RECURSIVE InsertIdx(_, _, _)
InsertIdx(s, x, values) ==
  IF s = <<>> THEN <<x>>
  ELSE IF CompareBytes(values[x + 1], values[Head(s) + 1]) < 0
       THEN <<x>> \o s
  ELSE <<Head(s)>> \o InsertIdx(Tail(s), x, values)

RECURSIVE SortIdx(_, _)
SortIdx(order, values) ==
  IF order = <<>> THEN <<>>
  ELSE InsertIdx(SortIdx(SubSeq(order, 1, Len(order) - 1), values),
                 order[Len(order)], values)

\* what the array order holds when qsort is called: it is allocated with
\* smalloc and never written (mapreduce.cpp:1578-1592), so its n entries are
\* whatever the allocator left there
Garbage(g, n) ==
  [i \in 1..n |-> IF g = "zeros" THEN 0
                  ELSE IF g = "iota" THEN i - 1 ELSE n + i] \o <<>>

\* the values with the indices of order, in that order
RECURSIVE Pick(_, _)
Pick(order, values) ==
  IF order = <<>> THEN <<>>
  ELSE <<values[Head(order) + 1]>> \o Pick(Tail(order), values)

\* the loop over the pairs of one KMV page (mapreduce.cpp:1558-1603)
sortmv_pairs(H, e, g, ptr, i, nkey) ==
  IF ~OK(H) \/ i >= nkey THEN H
  ELSE LET m == H.mr[e]
           page == H.kvs[m.kmv].page
           d == Call("KMVDecodeAt", <<H.mem[page], ptr,
                            m.kalign - 1, m.valign - 1, m.talign - 1>>)
           order0 == Garbage(g, d.nvalues)
           order  == SortIdx(order0, d.values)
           sorted == Flatten(Pick(order, d.values))
       IN  IF d.nvalues < 0
           THEN Fatal(H, "Cannot yet sort multivalues for a multiple block KeyMultiValue")
           ELSE IF \E j \in 1..Len(order0) : order0[j] >= d.nvalues
           THEN Fatal(H, "Segmentation fault")
           ELSE Call("sortmv_pairs",
                     <<[H EXCEPT !.mem[m.memavail] = WriteBytes(@, 0, sorted),
                                 !.mem[page] = WriteBytes(@, d.vptr, sorted)],
                       e, g,
                       ROUNDUP(d.vptr + d.mvaluebytes, m.talign - 1),
                       i + 1, nkey>>)

sortmv_pages(H, e, g, ipage, npage) ==
  IF ~OK(H) \/ ipage >= npage THEN H
  ELSE LET r == Call("KMV_request_page", <<H, H.mr[e].kmv, ipage, 1>>)
           p == Call("sortmv_pairs", <<r.H, e, g, 0, 0, r.nkey>>)
       IN  Call("sortmv_pages",
                <<IF OK(p) THEN Call("KMV_overwrite_page", <<p, H.mr[e].kmv, ipage>>)
                  ELSE p,
                  e, g, ipage + 1, npage>>)

\* MapReduce::sort_multivalues
MR_sort_multivalues(H, e, g) ==
  IF ~OK(H) THEN H
  ELSE IF H.mr[e].kmv = NULL
    THEN Fatal(H, "Cannot sort_multivalues without KeyMultiValue")
  ELSE RetKMV(Call("sortmv_pages",
                   <<H, e, g, 0, H.kvs[H.mr[e].kmv].npage>>), e)

(***************************************************************************)
(* add, copy, map(mr)                                                      *)
(***************************************************************************)
\* add that checks for itself after append()
MR_add_late(H, e, other) ==
  IF ~OK(H) THEN H
  ELSE IF H.mr[e].kv = NULL THEN Fatal(H, "Cannot add without KeyValue")
  ELSE IF H.mr[other].kv = NULL
    THEN Fatal(H, "MapReduce passed to add() does not have KeyValue pairs")
  ELSE Fatal(Call("KeyValue_append", <<H, H.mr[e].kv>>), "Cannot add to self")

\* MapReduce::add(MapReduce *mr)
MR_add(H, e, other) ==
  IF ~OK(H) THEN H
  ELSE IF H.mr[e].kv = NULL THEN Fatal(H, "Cannot add without KeyValue")
  ELSE IF H.mr[other].kv = NULL
    THEN Fatal(H, "MapReduce passed to add() does not have KeyValue pairs")
  ELSE IF other = e THEN Fatal(H, "Cannot add to self")
  ELSE LET H1 == IF H.mr[e].allocated = 0 THEN Call("allocate", <<H, e>>) ELSE H
           kv == H.mr[e].kv
           H2 == Call("KeyValue_append", <<H1, kv>>)
           H3 == Call("KeyValue_add_kv", <<H2, kv, H.mr[other].kv>>)
       IN  RetKV(Call("KeyValue_complete", <<H3, kv>>), e)

\* MapReduce::copy_kv(KeyValue *kv_src)
copy_kv(H, e, kv_src) ==
  LET H1 == IF H.mr[e].allocated = 0 THEN Call("allocate", <<H, e>>) ELSE H
      id == NewId(DOMAIN H1.kvs)
  IN  IF ~OK(H1) THEN H1
      ELSE Call("KeyValue_copy",
                <<[new_kv(H1, e, id) EXCEPT !.mr[e].kv = id], id, kv_src>>)

\* MapReduce::copy_kmv(KeyMultiValue *kmv_src)
copy_kmv(H, e, kmv_src) ==
  LET H1 == IF H.mr[e].allocated = 0 THEN Call("allocate", <<H, e>>) ELSE H
      id == NewId(DOMAIN H1.kvs)
  IN  IF ~OK(H1) THEN H1
      ELSE Call("KMV_copy",
                <<[new_kmv(H1, e, id) EXCEPT !.mr[e].kmv = id], id, kmv_src>>)

\* MapReduce::copy : the copy gets handle enew
MR_copy(H, e, enew) ==
  LET m  == H.mr[e]
      H1 == [MapReduce_new(H, enew)
               EXCEPT !.mr[enew].mapstyle = m.mapstyle,
                      !.mr[enew].memsize = m.memsize,
                      !.mr[enew].keyalign =
                        IF m.allocated = 1 THEN m.kalign ELSE m.keyalign,
                      !.mr[enew].valuealign =
                        IF m.allocated = 1 THEN m.valign ELSE m.valuealign]
      H2 == IF m.kv # NULL THEN Call("copy_kv", <<H1, enew, m.kv>>) ELSE H1
  IN  IF ~OK(H) THEN H
      ELSE IF m.kmv # NULL THEN Call("copy_kmv", <<H2, enew, m.kmv>>) ELSE H2

\* the loop over the pairs of one page of kv_src in map(mr)
\* (mapreduce.cpp:1311-1326): appmap(i,key,keybytes,value,valuebytes,kv_dest,..)
mapkv_pairs(H, e, kv_src, kv_dest, fn, ptr, i, nkey) ==
  IF ~OK(H) \/ i >= nkey THEN H
  ELSE LET m == H.mr[e]
           d == Call("DecodeAt", <<H.mem[H.kvs[kv_src].page], ptr,
                                   m.kalign - 1, m.valign - 1, m.talign - 1>>)
       IN  Call("mapkv_pairs",
                <<Call("add_each",
                       <<H, kv_dest, MapKVEmits(fn, i, d.key, d.value)>>),
                  e, kv_src, kv_dest, fn, d.next, i + 1, nkey>>)

mapkv_pages(H, e, kv_src, kv_dest, fn, ipage, npage) ==
  IF ~OK(H) \/ ipage >= npage THEN H
  ELSE LET r == Call("KeyValue_request_page", <<H, kv_src, ipage>>)
       IN  Call("mapkv_pages",
                <<Call("mapkv_pairs",
                       <<r.H, e, kv_src, kv_dest, fn, 0, 0, r.nkey>>),
                  e, kv_src, kv_dest, fn, ipage + 1, npage>>)

\* MapReduce::map(MapReduce *mr, void (*appmap)(...), void *appptr, int addflag)
MR_map_mr(H, e, mr, fn, addflag) ==
  LET kv_src == H.mr[mr].kv
      H1 == IF H.mr[e].allocated = 0 THEN Call("allocate", <<H, e>>) ELSE H
      H2 == drop_kmv(H1, e)
      D  == KeyValue_delete(H2, H2.mr[e].kv)
      fresh == mr = e \/ addflag = 0 \/ H2.mr[e].kv = NULL
      H3 == IF mr # e /\ addflag = 0 THEN D ELSE H2
      kv_dest == IF fresh THEN NewId(DOMAIN H3.kvs) ELSE H2.mr[e].kv
      H4 == IF ~fresh THEN Call("KeyValue_append", <<H3, kv_dest>>)
            ELSE IF mr = e /\ addflag # 0
            THEN Call("KeyValue_append",
                      <<Call("KeyValue_copy",
                             <<new_kv(H3, e, kv_dest), kv_dest, kv_src>>),
                        kv_dest>>)
            ELSE new_kv(H3, e, kv_dest)
      H5 == Call("mapkv_pages",
                 <<H4, e, kv_src, kv_dest, fn, 0, H4.kvs[kv_src].npage>>)
      H6 == [(IF mr = e THEN KeyValue_delete(H5, kv_src) ELSE H5)
               EXCEPT !.mr[e].kv = kv_dest]
  IN  IF ~OK(H) THEN H
      ELSE IF kv_src = NULL
        THEN Fatal(H, "MapReduce passed to map() does not have KeyValue pairs")
      ELSE IF ~OK(H1) THEN H1
      ELSE IF ~OK(H5) THEN H5
      ELSE RetKV(Call("KeyValue_complete", <<H6, kv_dest>>), e)

(***************************************************************************)
(* sort_keys, sort_values                                                  *)
(***************************************************************************)
\* the key (flag 0) or the value (flag 1) of a decoded pair
SortStr(flag, d) == IF flag = 0 THEN d.key ELSE d.value

\* the byte strings the comparator is given for the pairs ds
RECURSIVE SortStrs(_, _)
SortStrs(flag, ds) ==
  IF ds = <<>> THEN <<>>
  ELSE <<SortStr(flag, Head(ds))>> \o SortStrs(flag, Tail(ds))

\* 0..n-1
RECURSIVE Iota(_)
Iota(n) == IF n <= 0 THEN <<>> ELSE Iota(n - 1) \o <<n - 1>>

\* the packed bytes of the pairs ds of buffer buf
RECURSIVE PackedOf(_, _, _)
PackedOf(buf, ds, ptr) ==
  IF ds = <<>> THEN <<>>
  ELSE <<ReadBytes(buf, ptr, Head(ds).next - ptr)>>
         \o PackedOf(buf, Tail(ds), Head(ds).next)

\* *((int *) &buf[off]) = n
WriteInt(buf, off, n) == WriteBytes(buf, off, IntBytes(n))

\* The slab of engine e as one byte array: mem0, mem1 and mem2, followed by
\* the page of its KV if that page is not one of its quarters.  The arrays
\* order, soffset and slength of sort_kv are at memavail in it, nkey ints
\* each (mapreduce.cpp:1673-1675); mem2 holds nothing a sort reads before
\* writing it.
SlabOf(H, e) ==
  LET m == H.mr[e]
      pg == H.kvs[m.kv].page
  IN  H.mem[<<e, 0>>] \o H.mem[<<e, 1>>] \o Zeros(m.memhalf)
        \o (IF pg[1] = e THEN <<>> ELSE H.mem[pg])

\* the offset in the slab of quarter q of engine e, or of a page elsewhere
SlabOffset(H, e, q) ==
  IF q[1] = e THEN q[2] * H.mr[e].memquarter ELSE 4 * H.mr[e].memquarter

\* the heap with the quarters of engine e as they are in the slab
FromSlab(H, e, slab) ==
  LET m == H.mr[e]
      pg == H.kvs[m.kv].page
      H1 == [H EXCEPT !.mem[<<e, 0>>] = SubSeq(slab, 1, m.memquarter),
                      !.mem[<<e, 1>>] = SubSeq(slab, m.memquarter + 1,
                                               2 * m.memquarter)]
  IN  IF pg[1] = e THEN H1
      ELSE [H1 EXCEPT !.mem[pg] = SubSeq(slab, 4 * m.memquarter + 1, Len(slab))]

\* the first loop over the pairs of the page (mapreduce.cpp:1679-1702):
\* order[i] = i, soffset[i] and slength[i] of the key or the value; A is the
\* offset of memavail and P that of the page, m the engine
sort_scan(slab, m, A, P, n, flag, i, ptr) ==
  IF i >= n THEN slab
  ELSE LET s1 == WriteInt(slab, A + i * SIZEOFINT, i)
           d  == Call("DecodeAt", <<s1, ptr, m.kalign - 1, m.valign - 1,
                                    m.talign - 1>>)
           s2 == WriteInt(s1, A + (n + i) * SIZEOFINT,
                          (IF flag = 0 THEN d.kptr ELSE d.vptr) - P)
           s3 == WriteInt(s2, A + (2 * n + i) * SIZEOFINT,
                          IF flag = 0 THEN d.keybytes ELSE d.valuebytes)
       IN  Call("sort_scan", <<s3, m, A, P, n, flag, i + 1, d.next>>)

\* the n ints of an array at offset off of the slab
SlabInts(slab, off, n) ==
  IF n <= 0 THEN <<>>
  ELSE <<ReadInt(slab, off)>> \o Call("SlabInts", <<slab, off + SIZEOFINT, n - 1>>)

\* the byte strings compare_wrapper hands to the comparator for the indices
\* 0..n-1: &sptr[soffset[i]], slength[i]  (mapreduce.cpp:1917-1920)
SlabStrs(slab, P, soffset, slength) ==
  IF soffset = <<>> THEN <<>>
  ELSE <<ReadBytes(slab, P + Head(soffset), Head(slength))>>
         \o Call("SlabStrs", <<slab, P, Tail(soffset), Tail(slength)>>)

\* qsort(order,nkey,sizeof(int),compare_standalone)  (mapreduce.cpp:1706-1708)
sort_order(slab, A, P, n) ==
  LET order == Call("SlabInts", <<slab, A, n>>)
      strs  == Call("SlabStrs",
                    <<slab, P, Call("SlabInts", <<slab, A + n * SIZEOFINT, n>>),
                      Call("SlabInts", <<slab, A + 2 * n * SIZEOFINT, n>>)>>)
  IN  WriteBytes(slab, A, Flatten([i \in 1..n |-> IntBytes(SortIdx(order, strs)[i])]
                                    \o <<>>))

\* the second loop (mapreduce.cpp:1713-1729): soffset[i] and slength[i] of
\* the whole pair
sort_sizes(slab, m, A, P, n, i, ptr) ==
  IF i >= n THEN slab
  ELSE LET s1 == WriteInt(slab, A + (n + i) * SIZEOFINT, ptr - P)
           d  == Call("DecodeAt", <<s1, ptr, m.kalign - 1, m.valign - 1,
                                    m.talign - 1>>)
           s2 == WriteInt(s1, A + (2 * n + i) * SIZEOFINT, d.next - ptr)
       IN  Call("sort_sizes", <<s2, m, A, P, n, i + 1, d.next>>)

\* the loop that copies the pairs out in the order of the array order
\* (mapreduce.cpp:1734-1751): to mem2 for a KV of one page, to the page of a
\* spool at mem2a otherwise (limit is the size of that page; a full page is
\* written to the spool file and filled from its start again).  Returns the
\* slab, the pairs copied and the bytes in the destination page.
sort_copy(slab, A, P, D, n, limit, i, off, acc) ==
  IF i >= n THEN [slab |-> slab, entries |-> acc, off |-> off]
  ELSE LET j  == ReadInt(slab, A + i * SIZEOFINT)
           so == ReadInt(slab, A + (n + j) * SIZEOFINT)
           sl == ReadInt(slab, A + (2 * n + j) * SIZEOFINT)
           entry == ReadBytes(slab, P + so, sl)
           at == IF off + sl > limit THEN 0 ELSE off
       IN  Call("sort_copy",
                <<WriteBytes(slab, D + at, entry), A, P, D, n, limit, i + 1,
                  at + Max(sl, 0), Append(acc, entry)>>)

\* one page of the KV sorted (mapreduce.cpp:1664-1751): returns the heap and
\* the pairs in the order they were copied out; single is TRUE for a KV of
\* one page, whose page is overwritten with the sorted pairs
sorted_page(H, e, flag, nkey, single) ==
  LET m  == H.mr[e]
      A  == SlabOffset(H, e, m.memavail)
      P  == SlabOffset(H, e, H.kvs[m.kv].page)
      D  == m.memhalf
      memspool == ((m.memhalf \div 3) \div ALIGNFILE) * ALIGNFILE
      s1 == Call("sort_scan", <<SlabOf(H, e), m, A, P, nkey, flag, 0, P>>)
      s2 == Call("sort_order", <<s1, A, P, nkey>>)
      s3 == Call("sort_sizes", <<s2, m, A, P, nkey, 0, P>>)
      c  == Call("sort_copy",
                 <<s3, A, P, D, nkey, IF single THEN m.memhalf ELSE memspool,
                   0, 0, <<>> >>)
  IN  [H |-> FromSlab(H, e,
                      IF single
                      THEN WriteBytes(c.slab, P, ReadBytes(c.slab, D, c.off))
                      ELSE c.slab),
       entries |-> c.entries]

\* MapReduce::merge on the entries of two spools; an entry is a packed pair
merge(m, flag, s1, s2, i1, i2, done, result, out) ==
  LET x1 == Call("DecodeAt", <<s1[i1], 0, m.kalign - 1, m.valign - 1, m.talign - 1>>)
      x2 == Call("DecodeAt", <<s2[i2], 0, m.kalign - 1, m.valign - 1, m.talign - 1>>)
      res == IF done = 0
             THEN CompareBytes(SortStr(flag, x1), SortStr(flag, x2))
             ELSE result
      takeA == res <= 0
      outA  == IF takeA THEN Append(out, s1[i1]) ELSE out
      i1A   == IF takeA THEN i1 + 1 ELSE i1
      endA  == takeA /\ i1A > Len(s1)
      doneA == IF endA THEN done + 1 ELSE done
      resA  == IF endA THEN 1 ELSE res
      takeB == resA >= 0
      outB  == IF takeB THEN Append(outA, s2[i2]) ELSE outA
      i2B   == IF takeB THEN i2 + 1 ELSE i2
      endB  == takeB /\ i2B > Len(s2)
      doneB == IF endB THEN doneA + 1 ELSE doneA
      resB  == IF endB THEN -1 ELSE resA
  IN  IF endA /\ doneA = 2 THEN outA
      ELSE IF endB /\ doneB = 2 THEN outB
      ELSE Call("merge", <<m, flag, s1, s2, Min(i1A, Len(s1)), Min(i2B, Len(s2)),
                           doneB, resB, outB>>)

\* the merges of sort_kv (mapreduce.cpp:1750-1760): spools is the list of
\* spools not yet merged, the result of a merge goes to its end
merge_spools(m, flag, spools) ==
  IF Len(spools) <= 1 THEN spools[1]
  ELSE Call("merge_spools",
            <<m, flag,
              Append(SubSeq(spools, 3, Len(spools)),
                     Call("merge", <<m, flag, spools[1], spools[2], 1, 1, 0, 0,
                                     <<>> >>))>>)

\* the entries of a spool page by page: a page holds memspool bytes
spool_pages(entries, memspool, page, acc) ==
  IF entries = <<>> THEN (IF page = <<>> THEN acc ELSE Append(acc, page))
  ELSE IF SumSeq(Lens(page)) + Len(Head(entries)) > memspool /\ page # <<>>
    THEN Call("spool_pages", <<entries, memspool, <<>>, Append(acc, page)>>)
  ELSE Call("spool_pages",
            <<Tail(entries), memspool, Append(page, Head(entries)), acc>>)

\* for (ipage ...) { nentry = sp->request_page(ipage); kv->add(nentry,page); }
add_spool_pages(H, id, pages) ==
  IF ~OK(H) \/ pages = <<>> THEN H
  ELSE Call("add_spool_pages",
            <<Call("KeyValue_add_buf",
                   <<H, id, Len(Head(pages)), Flatten(Head(pages))>>),
              id, Tail(pages)>>)

\* the first loop of sort_kv over the pages of a KV of several pages: returns
\* the heap and the spools, one per page
sort_pages(H, e, flag, ipage, npage, acc) ==
  IF ipage >= npage THEN [H |-> H, spools |-> acc]
  ELSE LET r == Call("KeyValue_request_page", <<H, H.mr[e].kv, ipage>>)
           p == Call("sorted_page", <<r.H, e, flag, r.nkey, FALSE>>)
       IN  Call("sort_pages",
                <<p.H, e, flag, ipage + 1, npage, Append(acc, p.entries)>>)

\* MapReduce::sort_kv(int flag)
sort_kv(H, e, flag) ==
  LET m  == H.mr[e]
      kv == H.kvs[m.kv]
      memspool == ((m.memhalf \div 3) \div ALIGNFILE) * ALIGNFILE
      r1 == Call("KeyValue_request_page", <<H, m.kv, 0>>)
      s  == Call("sort_pages", <<H, e, flag, 0, kv.npage, <<>> >>)
      D  == KeyValue_delete(s.H, m.kv)
      id == NewId(DOMAIN D.kvs)
      final == Call("merge_spools", <<m, flag, s.spools>>)
  IN  IF kv.npage = 1
      THEN Call("sorted_page", <<r1.H, e, flag, r1.nkey, TRUE>>).H
      ELSE IF \E i \in 1..Len(s.spools) : s.spools[i] = <<>>
      THEN Fatal(s.H, "Segmentation fault")
      ELSE IF \E i \in 1..Len(final) : Len(final[i]) > memspool
      THEN Fatal(s.H, "Spool entry exceeds spool page size")
      ELSE Call("KeyValue_complete",
                <<Call("add_spool_pages",
                       <<[new_kv(D, e, id) EXCEPT !.mr[e].kv = id], id,
                         Call("spool_pages", <<final, memspool, <<>>, <<>> >>)>>),
                  id>>)

\* sort that moves the toggle before its check
MR_sort_toggles(H, e, flag) ==
  IF OK(H) /\ H.mr[e].kv = NULL
  THEN Fatal([H EXCEPT !.mr[e].memtoggle = 1 - @], "Cannot sort without KeyValue")
  ELSE H

\* MapReduce::sort_keys (flag 0) and MapReduce::sort_values (flag 1)
MR_sort(H, e, flag) ==
  IF ~OK(H) THEN H
  ELSE IF H.mr[e].kv = NULL
    THEN Fatal(H, IF flag = 0 THEN "Cannot sort_keys without KeyValue"
                  ELSE "Cannot sort_values without KeyValue")
  ELSE RetKV(Call("sort_kv", <<H, e, flag>>), e)

(***************************************************************************)
(* Collective operators.  HS[r] is the heap of rank r; the ranks run the   *)
(* same call and meet in the exchanges.                                    *)
(***************************************************************************)
\* the heaps of ranks r.. after every rank ran method f with arguments a
each_rank(HS, f, a, r) ==
  IF r \notin DOMAIN HS THEN <<>>
  ELSE (r :> Call(f, <<HS[r]>> \o a)) @@ Call("each_rank", <<HS, f, a, r + 1>>)

AllOK(HS) == \A r \in DOMAIN HS : OK(HS[r])

\* C's % on ints: the remainder has the sign of the dividend
CMod(a, n) == IF a >= 0 THEN a % n ELSE -((-a) % n)

\* hashlittle(key,keybytes,nprocs), an unsigned 32-bit hash of the key bytes
hashlittle(key, initval) == SumSeq(key) + 7 * Len(key) + initval

\* proclist[i] (mapreduce.cpp:415-416)
ProcOf(hash, key, nprocs) ==
  IF hash # "NULL" THEN CMod(UserHash(hash, key), nprocs)
  ELSE hashlittle(key, nprocs) % nprocs

\* a send list with rank 0 as the destination of every pair
RECURSIVE SendList_rank0(_, _, _, _, _)
SendList_rank0(buf, ds, ptr, hash, nprocs) ==
  IF ds = <<>> THEN <<>>
  ELSE <<[proc |-> 0, bytes |-> ReadBytes(buf, ptr, Head(ds).next - ptr)]>>
         \o SendList_rank0(buf, Tail(ds), Head(ds).next, hash, nprocs)

\* what one rank sends in round ipage of aggregate: the packed pairs of its
\* page ipage, each with its destination (mapreduce.cpp:380-417)
RECURSIVE SendList(_, _, _, _, _)
SendList(buf, ds, ptr, hash, nprocs) ==
  IF ds = <<>> THEN <<>>
  ELSE <<[proc |-> ProcOf(hash, Head(ds).key, nprocs),
          bytes |-> ReadBytes(buf, ptr, Head(ds).next - ptr)]>>
         \o SendList(buf, Tail(ds), Head(ds).next, hash, nprocs)

agg_send(H, e, hash, ipage) ==
  LET m == H.mr[e]
      r == IF ipage < H.kvs[m.kv].npage
           THEN Call("KeyValue_request_page", <<H, m.kv, ipage>>)
           ELSE [H |-> H, nkey |-> 0]
      buf == r.H.mem[r.H.kvs[m.kv].page]
      ds == Call("DecodeN", <<buf, 0, r.nkey, m.kalign - 1, m.valign - 1,
                              m.talign - 1>>)
  IN  [H |-> r.H, sends |-> SendList(buf, ds, 0, hash, H.nprocs)]

\* the entries of a send list for rank r, in order
RECURSIVE ForRank(_, _)
ForRank(sends, r) ==
  IF sends = <<>> THEN <<>>
  ELSE (IF Head(sends).proc = r THEN <<Head(sends).bytes>> ELSE <<>>)
       \o ForRank(Tail(sends), r)

\* the Irregular exchange: what rank r receives, the data of every source
\* kept in order, the sources in the order srcs
RECURSIVE Received(_, _, _)
Received(S, srcs, r) ==
  IF srcs = <<>> THEN <<>>
  ELSE ForRank(S[Head(srcs)].sends, r) \o Received(S, Tail(srcs), r)

\* one round of aggregate for ranks r..: kvnew->add(nkey_recv,page_recv)
agg_recv(S, kvnew, srcs, r) ==
  IF r \notin DOMAIN S THEN <<>>
  ELSE LET got == Received(S, srcs, r)
           bad == \E i \in 1..Len(S[r].sends) :
                    S[r].sends[i].proc \notin DOMAIN S
       IN  (r :> IF bad
                 THEN Fatal(S[r].H, "Irregular: destination is not a rank of the group")
                 ELSE Call("KeyValue_add_buf",
                           <<S[r].H, kvnew[r], Len(got), Flatten(got)>>))
           @@ Call("agg_recv", <<S, kvnew, srcs, r + 1>>)

\* a loop that leaves out the last round
agg_rounds_short(HS, e, hash, kvnew, srcs, ipage, maxpage) ==
  IF ~AllOK(HS) \/ ipage >= maxpage - 1 THEN HS
  ELSE Call("agg_rounds",
            <<Call("agg_recv",
                   <<Call("each_rank", <<HS, "agg_send", <<e, hash, ipage>>, 0>>),
                     kvnew, srcs, 0>>),
              e, hash, kvnew, srcs, ipage + 1, maxpage>>)

\* for (int ipage = 0; ipage < maxpage; ipage++) ...
agg_rounds(HS, e, hash, kvnew, srcs, ipage, maxpage) ==
  IF ~AllOK(HS) \/ ipage >= maxpage THEN HS
  ELSE Call("agg_rounds",
            <<Call("agg_recv",
                   <<Call("each_rank", <<HS, "agg_send", <<e, hash, ipage>>, 0>>),
                     kvnew, srcs, 0>>),
              e, hash, kvnew, srcs, ipage + 1, maxpage>>)

\* the largest of the numbers ns (MPI_Allreduce with MPI_MAX)
RECURSIVE MaxOf(_)
MaxOf(ns) == IF ns = <<>> THEN 0 ELSE Max(Head(ns), MaxOf(Tail(ns)))

\* the calls before the loop of aggregate: kvnew = new KeyValue(...); memswap()
agg_begin(H, e) ==
  IF ~OK(H) THEN H
  ELSE IF H.mr[e].kv = NULL THEN Fatal(H, "Cannot aggregate without KeyValue")
  ELSE IF H.nprocs = 1 THEN H
  ELSE new_kv(H, e, NewId(DOMAIN H.kvs))

\* the calls after the loop: delete kv; kv = kvnew; kv->complete()
agg_end(H, e, kvnew) ==
  IF ~OK(H) THEN H
  ELSE RetKV(Call("KeyValue_complete",
                  <<[KeyValue_delete(H, H.mr[e].kv) EXCEPT !.mr[e].kv = kvnew],
                    kvnew>>), e)

\* MapReduce::aggregate on every rank; srcs is the order in which the data of
\* the sources arrives in a receive buffer
MR_aggregate(HS, e, hash, srcs) ==
  LET kvnew == [r \in DOMAIN HS |-> NewId(DOMAIN HS[r].kvs)]
      B  == Call("each_rank", <<HS, "agg_begin", <<e>>, 0>>)
      maxpage == MaxOf([r \in 1..Cardinality(DOMAIN HS) |->
                          B[r - 1].kvs[B[r - 1].mr[e].kv].npage])
      R  == Call("agg_rounds", <<B, e, hash, kvnew, srcs, 0, maxpage>>)
  IN  IF ~AllOK(B) THEN B
      ELSE IF Cardinality(DOMAIN HS) = 1
      THEN Call("each_rank", <<B, "RetKV", <<e>>, 0>>)
      ELSE IF ~AllOK(R) THEN R
      ELSE Call("agg_end_all", <<R, e, kvnew, 0>>)

agg_end_all(HS, e, kvnew, r) ==
  IF r \notin DOMAIN HS THEN <<>>
  ELSE (r :> Call("agg_end", <<HS[r], e, kvnew[r]>>))
       @@ Call("agg_end_all", <<HS, e, kvnew, r + 1>>)

(***************************************************************************)
(* gather                                                                  *)
(***************************************************************************)
\* the loop of a sending rank (mapreduce.cpp:708-715): returns the heap and
\* what it sends for every page: sizes[0..3] and the page
gather_send(H, id, ipage, npage, acc) ==
  IF ipage >= npage THEN [H |-> H, pages |-> acc]
  ELSE LET r == Call("KeyValue_request_page", <<H, id, ipage>>)
       IN  Call("gather_send",
                <<r.H, id, ipage + 1, npage,
                  Append(acc, [nkey |-> r.nkey, keysize |-> r.keysize,
                               valuesize |-> r.valuesize,
                               alignsize |-> r.alignsize,
                               bytes |-> ReadBytes(r.H.mem[r.H.kvs[id].page], 0,
                                                   r.alignsize)])>>)

\* a receiving rank takes the pages of one sender (mapreduce.cpp:694-700)
gather_recv(H, e, pages) ==
  IF ~OK(H) \/ pages = <<>> THEN H
  ELSE LET m == H.mr[e]
           p == Head(pages)
           H1 == [H EXCEPT !.mem[m.memavail] = WriteBytes(@, 0, p.bytes)]
       IN  Call("gather_recv",
                <<Call("KeyValue_add_sized",
                       <<H1, m.kv, p.nkey, H1.mem[m.memavail], p.keysize,
                         p.valuesize, p.alignsize>>),
                  e, Tail(pages)>>)

\* a receiving rank that takes the pages of every higher rank
gather_from_next(H, e, S, iproc, numprocs) ==
  IF ~OK(H) \/ iproc \notin DOMAIN S THEN H
  ELSE Call("gather_from",
            <<Call("gather_recv", <<H, e, S[iproc].pages>>),
              e, S, iproc + 1, numprocs>>)

\* a receiving rank takes the pages of its senders iproc, iproc+numprocs, ..
gather_from(H, e, S, iproc, numprocs) ==
  IF ~OK(H) \/ iproc \notin DOMAIN S THEN H
  ELSE Call("gather_from",
            <<Call("gather_recv", <<H, e, S[iproc].pages>>),
              e, S, iproc + numprocs, numprocs>>)

\* what the ranks r.. send: nothing from the ranks below numprocs
gather_sends(HS, e, numprocs, r) ==
  IF r \notin DOMAIN HS THEN <<>>
  ELSE (r :> IF r < numprocs THEN [H |-> HS[r], pages |-> <<>>]
             ELSE Call("gather_send",
                       <<HS[r], HS[r].mr[e].kv, 0,
                         HS[r].kvs[HS[r].mr[e].kv].npage, <<>> >>))
       @@ Call("gather_sends", <<HS, e, numprocs, r + 1>>)

\* MapReduce::gather on rank r.. given what the senders send
gather_ranks(S, e, numprocs, r) ==
  IF r \notin DOMAIN S THEN <<>>
  ELSE LET H  == S[r].H
           D  == KeyValue_delete(H, H.mr[e].kv)
           id == NewId(DOMAIN D.kvs)
           H1 == IF r < numprocs
                 THEN Call("gather_from",
                           <<Call("KeyValue_append", <<H, H.mr[e].kv>>), e, S,
                             r + numprocs, numprocs>>)
                 ELSE [new_kv(D, e, id) EXCEPT !.mr[e].kv = id]
       IN  (r :> IF OK(H1)
                 THEN RetKV(Call("KeyValue_complete", <<H1, H1.mr[e].kv>>), e)
                 ELSE H1)
           @@ Call("gather_ranks", <<S, e, numprocs, r + 1>>)

\* the checks of gather
gather_begin(H, e, numprocs) ==
  IF ~OK(H) THEN H
  ELSE IF H.mr[e].kv = NULL THEN Fatal(H, "Cannot gather without KeyValue")
  ELSE IF numprocs < 1 \/ numprocs > H.nprocs
    THEN Fatal(H, "Invalid proc count for gather")
  ELSE RetKV(H, e)

\* MapReduce::gather on every rank
MR_gather(HS, e, numprocs) ==
  LET B == Call("each_rank", <<HS, "gather_begin", <<e, numprocs>>, 0>>)
      n == Cardinality(DOMAIN HS)
  IN  IF ~AllOK(B) \/ n = 1 \/ numprocs = n THEN B
      ELSE Call("gather_ranks",
                <<Call("gather_sends", <<B, e, numprocs, 0>>), e, numprocs, 0>>)

(***************************************************************************)
(* collate, scrunch                                                        *)
(***************************************************************************)
\* the check of collate
collate_begin(H, e) ==
  IF ~OK(H) THEN H
  ELSE IF H.mr[e].kv = NULL THEN Fatal(H, "Cannot collate without KeyValue")
  ELSE H

\* a collate that stops after the aggregate
MR_collate_half(HS, e, hash, srcs) ==
  LET B == Call("each_rank", <<HS, "collate_begin", <<e>>, 0>>)
      A == Call("MR_aggregate", <<B, e, hash, srcs>>)
  IN  IF ~AllOK(B) THEN B
      ELSE A

\* MapReduce::collate on every rank
MR_collate(HS, e, hash, srcs) ==
  LET B == Call("each_rank", <<HS, "collate_begin", <<e>>, 0>>)
      A == Call("MR_aggregate", <<B, e, hash, srcs>>)
  IN  IF ~AllOK(B) THEN B
      ELSE IF ~AllOK(A) THEN A
      ELSE Call("each_rank", <<A, "MR_convert", <<e>>, 0>>)

\* the check of scrunch
scrunch_begin(H, e) ==
  IF ~OK(H) THEN H
  ELSE IF H.mr[e].kv = NULL THEN Fatal(H, "Cannot scrunch without KeyValue")
  ELSE H

\* MapReduce::scrunch on every rank
MR_scrunch(HS, e, numprocs, key) ==
  LET B == Call("each_rank", <<HS, "scrunch_begin", <<e>>, 0>>)
      G == Call("MR_gather", <<B, e, numprocs>>)
  IN  IF ~AllOK(B) THEN B
      ELSE IF ~AllOK(G) THEN G
      ELSE Call("each_rank", <<G, "MR_collapse", <<e, key>>, 0>>)


(***************************************************************************)
(* map of files: one task of a file split by a separator character         *)
(***************************************************************************)
\* strchr(&str[from],c) on the 0-terminated string str: the 0-based index of
\* the first c at or after from, or -1 (NULL) if the terminator comes first
RECURSIVE strchr(_, _, _)
strchr(str, from, c) ==
  IF from >= Len(str) \/ str[from + 1] = 0 THEN -1
  ELSE IF str[from + 1] = c THEN from
  ELSE strchr(str, from + 1, c)

\* a trim that accepts a separator at the very end of the delta window only
map_file_wrapper_wide(file, itask, ntask, sepchar, delta) ==
  LET filesize  == Len(file)
      readstart == (itask * filesize) \div ntask
      readnext  == ((itask + 1) * filesize) \div ntask
      readsize  == Min(readnext - readstart + delta + 1, filesize - readstart)
      str   == SubSeq(file, readstart + 1, readstart + readsize) \o <<0>>
      ptr1  == strchr(str, 0, sepchar)
      strstart == IF itask > 0 THEN ptr1 + 1 ELSE 0
      ptr2  == strchr(str, readnext - readstart, sepchar)
      strstop == IF itask < ntask - 1 THEN ptr2 + 1 ELSE readsize
  IN  IF itask > 0 /\ (ptr1 = -1 \/ ptr1 > delta)
      THEN [err |-> "Could not find separator within delta"]
      ELSE IF itask < ntask - 1 /\ ptr2 = -1
      THEN [err |-> "Could not find separator within delta"]
      ELSE [err |-> "", str |-> SubSeq(str, strstart + 1, strstop),
            strsize |-> strstop - strstart + 1,
            first |-> readstart + strstart, stop |-> readstart + strstop]

\* MapReduce::map_file_wrapper for task itask of the ntask tasks of a file,
\* with a separator character (filemap.sepwhich = 1): the error, or the
\* strsize - 1 bytes before the terminator written at &str[strstop] and the
\* size handed to appmapfile, and the file positions of the first of these
\* bytes and of the byte after the last
map_file_wrapper(file, itask, ntask, sepchar, delta) ==
  LET filesize  == Len(file)
      readstart == (itask * filesize) \div ntask
      readnext  == ((itask + 1) * filesize) \div ntask
      readsize  == Min(readnext - readstart + delta, filesize - readstart)
      str   == SubSeq(file, readstart + 1, readstart + readsize) \o <<0>>
      ptr1  == strchr(str, 0, sepchar)
      strstart == IF itask > 0 THEN ptr1 + 1 ELSE 0
      ptr2  == strchr(str, readnext - readstart, sepchar)
      strstop == IF itask < ntask - 1 THEN ptr2 + 1 ELSE readsize
  IN  IF itask > 0 /\ (ptr1 = -1 \/ ptr1 > delta)
      THEN [err |-> "Could not find separator within delta"]
      ELSE IF itask < ntask - 1 /\ ptr2 = -1
      THEN [err |-> "Could not find separator within delta"]
      ELSE [err |-> "", str |-> SubSeq(str, strstart + 1, strstop),
            strsize |-> strstop - strstart + 1,
            first |-> readstart + strstart, stop |-> readstart + strstop]

\* MapReduce::map_file, one file: the number of tasks left for the file once
\* tasks too small for delta have been merged
RECURSIVE tasksperfile(_, _, _)
tasksperfile(filesize, n, delta) ==
  IF filesize \div n > delta \/ n = 1 THEN n
  ELSE tasksperfile(filesize, n - 1, delta)
(***************************************************************************)
(* One operator call of an application, on every rank of the group         *)
(***************************************************************************)
\* the pairs of the KV of engine e, read page by page (none if it has no KV)
Contents(H, e) ==
  IF OK(H) /\ e \in DOMAIN H.mr /\ H.mr[e].kv # NULL
  THEN Call("KeyValue_iterate", <<H, H.mr[e].kv>>).recs
  ELSE <<>>

\* what engine e holds: "kv", "kmv", "both" or "none"
Holds(H, e) ==
  IF H.mr[e].kv # NULL
  THEN (IF H.mr[e].kmv # NULL THEN "both" ELSE "kv")
  ELSE (IF H.mr[e].kmv # NULL THEN "kmv" ELSE "none")

\* the message of the fatal error that ended the call ("" if it returned)
ErrOf(HS) ==
  IF AllOK(HS) THEN ""
  ELSE HS[CHOOSE r \in DOMAIN HS : ~OK(HS[r])].err

\* the count of rank 0 alone, as if nothing were summed over the group
SumRet_local(HS, r) == HS[0].ret

\* MPI_Allreduce(&kv->nkv,&nkeyall,1,MPI_INT,MPI_SUM,comm): the sum of the
\* counts of the ranks from r on
RECURSIVE SumRet(_, _)
SumRet(HS, r) == IF r \notin DOMAIN HS THEN 0 ELSE HS[r].ret + SumRet(HS, r + 1)

\* the heap at the start of an operator call
Entry(H) == [H EXCEPT !.overlap = FALSE, !.ret = 0]

RECURSIVE EntryAll(_, _)
EntryAll(HS, r) ==
  IF r \notin DOMAIN HS THEN <<>> ELSE (r :> Entry(HS[r])) @@ EntryAll(HS, r + 1)

RECURSIVE ContentsAll(_, _, _)
ContentsAll(HS, e, r) ==
  IF r \notin DOMAIN HS THEN <<>>
  ELSE (r :> Contents(HS[r], e)) @@ ContentsAll(HS, e, r + 1)

\* the number of pages of the KV of engine e on every rank
RECURSIVE PagesAll(_, _, _)
PagesAll(HS, e, r) ==
  IF r \notin DOMAIN HS THEN <<>>
  ELSE (r :> IF OK(HS[r]) /\ e \in DOMAIN HS[r].mr /\ HS[r].mr[e].kv # NULL
             THEN HS[r].kvs[HS[r].mr[e].kv].npage ELSE 0)
       @@ PagesAll(HS, e, r + 1)

\* the same call f(a) on the heap of every rank, or one collective call f on
\* the heaps of all ranks
Run(HS, f, a, collective) ==
  IF collective THEN Call(f, <<EntryAll(HS, 0)>> \o a)
  ELSE Call("each_rank", <<EntryAll(HS, 0), f, a, 0>>)

\* the heaps after the operator call op(arg) on engine e, with its record
Outcome(HS0, op, e, arg, f, a, collective) ==
  LET HS == Run(HS0, f, a, collective)
  IN  [rk |-> HS,
       last |-> [op |-> op, e |-> e, arg |-> arg, err |-> ErrOf(HS),
                 ret |-> SumRet(HS, 0),
                 held |-> IF e \in DOMAIN HS0[0].mr THEN Holds(HS0[0], e)
                          ELSE "none",
                 pre |-> ContentsAll(HS0, e, 0),
                 prepages |-> PagesAll(HS0, e, 0),
                 other |-> IF op = "add" THEN ContentsAll(HS0, arg[1], 0)
                           ELSE <<>>,
                 post |-> ContentsAll(HS, e, 0),
                 postpages |-> PagesAll(HS, e, 0)]]


\* the bytes of page ipage of container id: the working page of a container
\* of one page, the page's part of the spill file otherwise
PageImage(H, id, ipage) ==
  LET c == H.kvs[id]
  IN  IF c.fileflag = 1
      THEN FileRead(FileOf(H, c.filename), c.pages[ipage + 1].fileoffset,
                    c.pages[ipage + 1].filesize)
      ELSE H.mem[c.page]

\* the values of the n block pages from page ipage of KMV id
kmv_block_values(H, id, ipage, n) ==
  IF n <= 0 THEN <<>>
  ELSE Call("KMVBlockAt", <<PageImage(H, id, ipage), H.kvs[id].valign - 1>>).values
         \o Call("kmv_block_values", <<H, id, ipage + 1, n - 1>>)

\* the pairs (key, values) of a KMV from pair i of page ipage on; a pair with
\* nvalues < 0 has its values in the -nvalues pages that follow its page
kmv_pairs(H, id, ipage, ptr, i) ==
  LET c == H.kvs[id]
      d == Call("KMVDecodeAt", <<PageImage(H, id, ipage), ptr,
                                 c.kalign - 1, c.valign - 1, c.talign - 1>>)
  IN  IF ipage >= c.npage THEN <<>>
      ELSE IF i >= c.pages[ipage + 1].nkey
      THEN Call("kmv_pairs", <<H, id, ipage + 1, 0, 0>>)
      ELSE IF d.nvalues > 0
      THEN <<[key |-> d.key, nvalues |-> d.nvalues, values |-> d.values]>>
             \o Call("kmv_pairs", <<H, id, ipage, d.next, i + 1>>)
      ELSE <<[key |-> d.key, nvalues |-> d.nvalues,
              values |-> Call("kmv_block_values",
                              <<H, id, ipage + 1, -d.nvalues>>)]>>
             \o Call("kmv_pairs", <<H, id, ipage + (-d.nvalues), d.next, i + 1>>)

\* the pairs of the KMV of engine e (none if it has no KMV)
KMVContents(H, e) ==
  IF OK(H) /\ e \in DOMAIN H.mr /\ H.mr[e].kmv # NULL
  THEN Call("kmv_pairs", <<H, H.mr[e].kmv, 0, 0, 0>>)
  ELSE <<>>
(***************************************************************************)
(* The method table                                                        *)
(***************************************************************************)
Methods(f, a) ==
  CASE f = "DecodeAt"   -> DecodeAt(a[1], a[2], a[3], a[4], a[5])
    [] f = "DecodeN"    -> DecodeN(a[1], a[2], a[3], a[4], a[5], a[6])
    [] f = "ScanChunk"  ->
         ScanChunk(a[1], a[2], a[3], a[4], a[5], a[6], a[7], a[8])
    [] f = "create_page" -> create_page(a[1])
    [] f = "write_page" -> write_page(a[1], a[2])
    [] f = "read_page"  -> read_page(a[1], a[2], a[3], a[4])
    [] f = "spill_page" -> spill_page(a[1], a[2])
    [] f = "add_chunks" ->
         add_chunks(a[1], a[2], a[3], a[4], a[5], a[6], a[7], a[8], a[9])
    [] f = "add_each"   -> add_each(a[1], a[2], a[3])
    [] f = "add_kv_pages"  -> add_kv_pages(a[1], a[2], a[3], a[4], a[5])
    [] f = "copy_pages"    -> copy_pages(a[1], a[2], a[3], a[4], a[5])
    [] f = "iterate_pages" -> iterate_pages(a[1], a[2], a[3], a[4], a[5])
    [] f = "KeyValue_add"      -> KeyValue_add(a[1], a[2], a[3], a[4])
    [] f = "KeyValue_complete" -> KeyValue_complete(a[1], a[2])
    [] f = "KeyValue_append"   -> KeyValue_append(a[1], a[2])
    [] f = "KeyValue_request_page" -> KeyValue_request_page(a[1], a[2], a[3])
    [] f = "KeyValue_add_sized" ->
         KeyValue_add_sized(a[1], a[2], a[3], a[4], a[5], a[6], a[7])
    [] f = "KeyValue_add_buf"  -> KeyValue_add_buf(a[1], a[2], a[3], a[4])
    [] f = "KeyValue_add_aligned" ->
         KeyValue_add_aligned(a[1], a[2], a[3], a[4], a[5], a[6])
    [] f = "KeyValue_add_kv"   -> KeyValue_add_kv(a[1], a[2], a[3])
    [] f = "KeyValue_copy"     -> KeyValue_copy(a[1], a[2], a[3])
    [] f = "KeyValue_iterate"  -> KeyValue_iterate(a[1], a[2])
    [] f = "BlockCount" ->
         BlockCount(a[1], a[2], a[3])
    [] f = "BlockTake" ->
         BlockTake(a[1], a[2], a[3], a[4], a[5])
    [] f = "KMVBlockAt" ->
         KMVBlockAt(a[1], a[2])
    [] f = "KMVDecodeAt" ->
         KMVDecodeAt(a[1], a[2], a[3], a[4], a[5])
    [] f = "KMV_add" ->
         KMV_add(a[1], a[2], a[3], a[4])
    [] f = "KMV_add_blocks" ->
         KMV_add_blocks(a[1], a[2], a[3])
    [] f = "KMV_add_each" ->
         KMV_add_each(a[1], a[2], a[3])
    [] f = "KMV_add_split" ->
         KMV_add_split(a[1], a[2], a[3], a[4])
    [] f = "KMV_clone" ->
         KMV_clone(a[1], a[2], a[3])
    [] f = "KMV_collapse" ->
         KMV_collapse(a[1], a[2], a[3], a[4])
    [] f = "KMV_complete" ->
         KMV_complete(a[1], a[2])
    [] f = "KMV_convert" ->
         KMV_convert(a[1], a[2], a[3])
    [] f = "KMV_copy" ->
         KMV_copy(a[1], a[2], a[3])
    [] f = "KMV_copy_pages" ->
         KMV_copy_pages(a[1], a[2], a[3], a[4], a[5])
    [] f = "KMV_overwrite_page" ->
         KMV_overwrite_page(a[1], a[2], a[3])
    [] f = "KMV_request_page" ->
         KMV_request_page(a[1], a[2], a[3], a[4])
    [] f = "MR_add" ->
         MR_add(a[1], a[2], a[3])
    [] f = "MR_aggregate" ->
         MR_aggregate(a[1], a[2], a[3], a[4])
    [] f = "MR_clone" ->
         MR_clone(a[1], a[2])
    [] f = "MR_collapse" ->
         MR_collapse(a[1], a[2], a[3])
    [] f = "MR_collate" ->
         MR_collate(a[1], a[2], a[3], a[4])
    [] f = "MR_compress" ->
         MR_compress(a[1], a[2], a[3])
    [] f = "MR_convert" ->
         MR_convert(a[1], a[2])
    [] f = "MR_copy" ->
         MR_copy(a[1], a[2], a[3])
    [] f = "MR_gather" ->
         MR_gather(a[1], a[2], a[3])
    [] f = "MR_map" ->
         MR_map(a[1], a[2], a[3], a[4], a[5], a[6])
    [] f = "MR_map_mr" ->
         MR_map_mr(a[1], a[2], a[3], a[4], a[5])
    [] f = "MR_multivalue_block" ->
         MR_multivalue_block(a[1], a[2], a[3])
    [] f = "MR_multivalue_blocks" ->
         MR_multivalue_blocks(a[1], a[2])
    [] f = "MR_reduce" ->
         MR_reduce(a[1], a[2], a[3])
    [] f = "MR_scrunch" ->
         MR_scrunch(a[1], a[2], a[3], a[4])
    [] f = "MR_set" ->
         MR_set(a[1], a[2], a[3], a[4], a[5])
    [] f = "MR_sort" ->
         MR_sort(a[1], a[2], a[3])
    [] f = "MR_sort_multivalues" ->
         MR_sort_multivalues(a[1], a[2], a[3])
    [] f = "NewEngine" ->
         NewEngine(a[1], a[2])
    [] f = "Outcome" ->
         Outcome(a[1], a[2], a[3], a[4], a[5], a[6], a[7])
    [] f = "RetKV" ->
         RetKV(a[1], a[2])
    [] f = "SlabInts" ->
         SlabInts(a[1], a[2], a[3])
    [] f = "SlabStrs" ->
         SlabStrs(a[1], a[2], a[3], a[4])
    [] f = "add_spool_pages" ->
         add_spool_pages(a[1], a[2], a[3])
    [] f = "agg_begin" ->
         agg_begin(a[1], a[2])
    [] f = "agg_end" ->
         agg_end(a[1], a[2], a[3])
    [] f = "agg_end_all" ->
         agg_end_all(a[1], a[2], a[3], a[4])
    [] f = "agg_recv" ->
         agg_recv(a[1], a[2], a[3], a[4])
    [] f = "agg_rounds" ->
         agg_rounds(a[1], a[2], a[3], a[4], a[5], a[6], a[7])
    [] f = "agg_send" ->
         agg_send(a[1], a[2], a[3], a[4])
    [] f = "allocate" ->
         allocate(a[1], a[2])
    [] f = "append_add_complete" ->
         append_add_complete(a[1], a[2], a[3])
    [] f = "appprobe" ->
         appprobe(a[1], a[2], a[3], a[4])
    [] f = "appreduce" ->
         appreduce(a[1], a[2], a[3], a[4], a[5], a[6])
    [] f = "collate_begin" ->
         collate_begin(a[1], a[2])
    [] f = "copy_kmv" ->
         copy_kmv(a[1], a[2], a[3])
    [] f = "copy_kv" ->
         copy_kv(a[1], a[2], a[3])
    [] f = "count_blocks" ->
         count_blocks(a[1], a[2], a[3], a[4], a[5])
    [] f = "drop_kmv" ->
         drop_kmv(a[1], a[2])
    [] f = "each_rank" ->
         each_rank(a[1], a[2], a[3], a[4])
    [] f = "ensure_allocated" ->
         ensure_allocated(a[1], a[2])
    [] f = "gather_begin" ->
         gather_begin(a[1], a[2], a[3])
    [] f = "gather_from" ->
         gather_from(a[1], a[2], a[3], a[4], a[5])
    [] f = "gather_ranks" ->
         gather_ranks(a[1], a[2], a[3], a[4])
    [] f = "gather_recv" ->
         gather_recv(a[1], a[2], a[3])
    [] f = "gather_send" ->
         gather_send(a[1], a[2], a[3], a[4], a[5])
    [] f = "gather_sends" ->
         gather_sends(a[1], a[2], a[3], a[4])
    [] f = "kmv_block_values" ->
         kmv_block_values(a[1], a[2], a[3], a[4])
    [] f = "kmv_pairs" ->
         kmv_pairs(a[1], a[2], a[3], a[4], a[5])
    [] f = "map_kv" ->
         map_kv(a[1], a[2], a[3])
    [] f = "mapkv_pages" ->
         mapkv_pages(a[1], a[2], a[3], a[4], a[5], a[6], a[7])
    [] f = "mapkv_pairs" ->
         mapkv_pairs(a[1], a[2], a[3], a[4], a[5], a[6], a[7], a[8])
    [] f = "merge" ->
         merge(a[1], a[2], a[3], a[4], a[5], a[6], a[7], a[8], a[9])
    [] f = "merge_spools" ->
         merge_spools(a[1], a[2], a[3])
    [] f = "multivalue_block" ->
         multivalue_block(a[1], a[2], a[3])
    [] f = "multivalue_blocks" ->
         multivalue_blocks(a[1], a[2])
    [] f = "reduce_pages" ->
         reduce_pages(a[1], a[2], a[3], a[4], a[5])
    [] f = "reduce_pairs" ->
         reduce_pairs(a[1], a[2], a[3], a[4], a[5], a[6], a[7])
    [] f = "reduce_requests" ->
         reduce_requests(a[1], a[2], a[3], a[4], a[5])
    [] f = "run_tasks" ->
         run_tasks(a[1], a[2], a[3], a[4])
    [] f = "scrunch_begin" ->
         scrunch_begin(a[1], a[2])
    [] f = "sort_copy" ->
         sort_copy(a[1], a[2], a[3], a[4], a[5], a[6], a[7], a[8], a[9])
    [] f = "sort_kv" ->
         sort_kv(a[1], a[2], a[3])
    [] f = "sort_order" ->
         sort_order(a[1], a[2], a[3], a[4])
    [] f = "sort_pages" ->
         sort_pages(a[1], a[2], a[3], a[4], a[5], a[6])
    [] f = "sort_scan" ->
         sort_scan(a[1], a[2], a[3], a[4], a[5], a[6], a[7], a[8])
    [] f = "sort_sizes" ->
         sort_sizes(a[1], a[2], a[3], a[4], a[5], a[6], a[7])
    [] f = "sorted_page" ->
         sorted_page(a[1], a[2], a[3], a[4], a[5])
    [] f = "sortmv_pages" ->
         sortmv_pages(a[1], a[2], a[3], a[4], a[5])
    [] f = "sortmv_pairs" ->
         sortmv_pairs(a[1], a[2], a[3], a[4], a[5], a[6])
    [] f = "spool_pages" ->
         spool_pages(a[1], a[2], a[3], a[4])

Call(f, a) == Methods(f, a)


(***************************************************************************)
(* Inputs: the pairs the application adds.  With a 16-byte page and        *)
(* 4-byte alignment they pack to 8, 12, 16 and 20 bytes (the last one      *)
(* does not fit a page).                                                   *)
(***************************************************************************)
R8  == Rec(<<>>, <<>>)
R12 == Rec(<<1>>, <<>>)
R16 == Rec(<<1>>, <<9>>)
R20 == Rec(<<2, 3, 4, 5, 6>>, <<7>>)
Recs == {R8, R12, R16, R20}

\* key and value alignments of the second container
AlignPairs == {<<4, 4>>, <<8, 4>>}

\* size_t nbytes = memsize * 1024*1024; memquarter = nbytes/4
MemQuarter(memsize) == (memsize * MByte) \div 4
MemHalf(memsize)    == (memsize * MByte) \div 2

(***************************************************************************)
(* SpecKV: a KeyValue object (handle 1) driven through the KeyValue        *)
(* interface in the order the engine uses it: adds, complete, page         *)
(* iteration, append, add of and copy from a second, completed KeyValue    *)
(* (handle 2).  last.log[id] is the list of pairs handed to KeyValue id.   *)
(***************************************************************************)
MaxKVOps == 6             \* KeyValue calls per behaviour
MaxAdds  == 3             \* pairs added by single adds per behaviour

\* what the second container is filled with before it is completed
OtherInputs == {<<>>, <<R16>>, <<R8, R16, R12>>}

\* the second container: the memsize setting of the engine that owns it and
\* the pairs it is filled with (with the larger setting its page holds a
\* pair that does not fit a page of the first container)
OtherKVs ==
  {[memsize |-> 1, inp |-> inp] : inp \in OtherInputs}
    \cup {[memsize |-> MemSize, inp |-> <<R8, R20>>]}

EmptyHeap ==
  [mr |-> <<>>, kvs |-> <<>>, kmvs |-> <<>>, fs |-> <<>>, instances |-> 0,
   err |-> "", overlap |-> FALSE, ret |-> 0, me |-> 0, nprocs |-> 1,
   ub |-> "wrap",
   mem |-> (<<0, 0>> :> Zeros(MemQuarter(1)))]

InitKV ==
  \E a \in AlignPairs, o \in OtherKVs :
    LET inp == o.inp
        H0 == [EmptyHeap EXCEPT !.mem = (<<0, 1>> :> Zeros(MemQuarter(o.memsize))) @@ @]
        H1 == PutKV(H0, 1,
                    KeyValue_new(<<0, 0>>, MemQuarter(1), ALIGNKV, ALIGNKV,
                                 KVFile(0, 1)))
        H2 == PutKV(H1, 2,
                    KeyValue_new(<<0, 1>>, MemQuarter(o.memsize), a[1], a[2],
                                 KVFile(1, 1)))
        H3 == Call("KeyValue_complete", <<Call("add_each", <<H2, 2, inp>>), 2>>)
    IN  /\ rk = [r \in {0} |-> H3]
        /\ last = [op |-> "new", id |-> 0, out |-> <<>>,
                   log |-> <<<<>>, inp>>, phase |-> "open", nadds |-> 0,
                   ncompl |-> 0, tried |-> "new"]
        /\ nops = 0

KVStep(H, op, out, log, phase, nadds) ==
  /\ nops < MaxKVOps
  /\ OK(rk[0])
  /\ rk' = [rk EXCEPT ![0] = H]
  /\ last' = IF OK(H)
             THEN [op |-> op, id |-> 1, out |-> out, log |-> log,
                   phase |-> phase, nadds |-> nadds,
                   ncompl |-> last.ncompl + (IF op = "complete" THEN 1 ELSE 0),
                   tried |-> op]
             ELSE [last EXCEPT !.op = "error", !.tried = op]
  /\ nops' = nops + 1

\* kv->add(key,keybytes,value,valuebytes)
KVAdd(rec) ==
  /\ last.phase = "open"
  /\ last.nadds < MaxAdds
  /\ KVStep(Call("KeyValue_add", <<rk[0], 1, rec.key, rec.value>>), "add", <<>>,
            [last.log EXCEPT ![1] = Append(@, rec)], "open", last.nadds + 1)

\* kv->complete()
KVComplete ==
  /\ last.phase = "open"
  /\ KVStep(Call("KeyValue_complete", <<rk[0], 1>>), "complete", <<>>, last.log,
            "complete", last.nadds)

\* kv->append()
KVAppend ==
  /\ last.phase = "complete"
  /\ KVStep(Call("KeyValue_append", <<rk[0], 1>>), "append", <<>>, last.log, "open",
            last.nadds)

\* npage = kv->request_info(&page); for ipage: kv->request_page(ipage,...)
KVIterate ==
  /\ last.phase = "complete"
  /\ LET r == Call("KeyValue_iterate", <<rk[0], 1>>)
     IN  KVStep(r.H, "iterate", r.recs, last.log, "complete", last.nadds)

\* kv->add(other)
KVAddKV ==
  /\ last.phase = "open"
  /\ last.op # "add_kv"
  /\ KVStep(Call("KeyValue_add_kv", <<rk[0], 1, 2>>), "add_kv", <<>>,
            [last.log EXCEPT ![1] = @ \o last.log[2]], "open", last.nadds)

\* kv = new KeyValue(...); kv->copy(other): the new container belongs to an
\* engine with the settings of the other's engine (mapreduce.cpp:198-210)
KVCopy ==
  /\ last.op = "new"
  /\ rk[0].kvs[1].pagesize = rk[0].kvs[2].pagesize
  /\ rk[0].kvs[1].kalign = rk[0].kvs[2].kalign
  /\ rk[0].kvs[1].valign = rk[0].kvs[2].valign
  /\ KVStep(Call("KeyValue_copy", <<rk[0], 1, 2>>), "copy", <<>>,
            [last.log EXCEPT ![1] = last.log[2]], "complete", last.nadds)

NextKV ==
  \/ \E rec \in Recs : KVAdd(rec)
  \/ KVComplete
  \/ KVAppend
  \/ KVIterate
  \/ KVAddKV
  \/ KVCopy

SpecKV == InitKV /\ [][NextKV]_vars

\* C5: a full page iteration of a completed KeyValue (request_page for pages
\* 0..npage-1, decoding nkey records of each) yields exactly the pairs that
\* were added, key bytes and value bytes with their lengths, in insertion order
C5_RoundTrip ==
  last.op = "iterate" => last.out = last.log[1]

\* an iteration over a KV of three pages (two of them spilled) with three pairs
C5_Witness ==
  /\ last.op = "iterate"
  /\ last.nadds >= 3
  /\ rk[0].kvs[1].npage >= 3
  /\ rk[0].kvs[1].fileflag = 1
  /\ Len(last.out) >= 3

\* the sum of field f over the page descriptors of kv
PageSum(kv, f) == SumSeq([i \in 1..kv.npage |-> kv.pages[i][f]])

\* C6: after every complete() the totals nkv, ksize, vsize, tsize equal the
\* sums of nkey, keysize, valuesize, exactsize over the page descriptors, and
\* every exactsize is 8*nkey + keysize + valuesize; also for a second
\* complete() after append() and further adds
C6_TotalsArePageSums ==
  last.op \in {"complete", "copy"} =>
    LET kv == rk[0].kvs[1]
    IN  /\ kv.nkv = PageSum(kv, "nkey")
        /\ kv.ksize = PageSum(kv, "keysize")
        /\ kv.vsize = PageSum(kv, "valuesize")
        /\ kv.tsize = PageSum(kv, "exactsize")
        /\ \A i \in 1..kv.npage :
             kv.pages[i].exactsize =
               8 * kv.pages[i].nkey + kv.pages[i].keysize + kv.pages[i].valuesize

\* a second complete() after append() and adds, on a KV with several pages
C6_Witness ==
  /\ last.op = "complete"
  /\ last.ncompl >= 2
  /\ rk[0].kvs[1].npage >= 2
  /\ rk[0].kvs[1].nkv >= 3
  /\ rk[0].kvs[1].ksize >= 1


\* the aligned packed size of a pair in a container with these alignments:
\* two lengths, the key at a multiple of kalign, the value at a multiple of
\* valign, the end at a multiple of talign
PackedSize(rec, kalign, valign) ==
  ROUNDUP(ROUNDUP(ROUNDUP(2 * SIZEOFINT, kalign - 1) + Len(rec.key), valign - 1)
            + Len(rec.value),
          Max(Max(kalign, valign), SIZEOFINT) - 1)

Oversize == "Single key/value pair exceeds page size"

\* the first pair of a page image of container kv
FirstPair(kv, buf) ==
  LET d == DecodeAt(buf, 0, kv.kalign - 1, kv.valign - 1, kv.talign - 1)
  IN  Rec(d.key, d.value)

\* the first pair of page ipage (0-based) of container id: the in-memory page
\* if it is the page being filled, the page's bytes in the spill file otherwise
FirstOfPage(H, id, ipage) ==
  LET kv == H.kvs[id]
  IN  IF ipage = kv.npage THEN FirstPair(kv, H.mem[kv.page])
      ELSE FirstPair(kv, FileRead(FileOf(H, kv.filename),
                                  kv.pages[ipage + 1].fileoffset,
                                  kv.pages[ipage + 1].filesize))

\* the single add of rec, judged from the state before and the state after
SingleAddLimit(rec) ==
  LET kv  == rk[0].kvs[1]
      kv2 == rk'[0].kvs[1]
      sz  == PackedSize(rec, kv.kalign, kv.valign)
  IN  /\ sz > kv.pagesize => rk'[0].err = Oversize
      /\ sz = kv.pagesize /\ kv.alignsize = 0 =>
            /\ OK(rk'[0])
            /\ kv2.npage = kv.npage
            /\ kv2.nkey = 1
            /\ kv2.alignsize = kv.pagesize
            /\ FirstOfPage(rk'[0], 1, kv2.npage) = rec
      /\ sz <= kv.pagesize /\ kv.alignsize > 0 /\ kv.alignsize + sz > kv.pagesize =>
            /\ OK(rk'[0])
            /\ kv2.npage = kv.npage + 1
            /\ kv2.pages[kv2.npage].nkey = kv.nkey
            /\ kv2.pages[kv2.npage].alignsize = kv.alignsize
            /\ kv2.nkey = 1
            /\ kv2.alignsize = sz
            /\ FirstOfPage(rk'[0], 1, kv2.npage) = rec

\* the add of the pages of the second container, judged in the same way
BufferAddLimit ==
  LET kv  == rk[0].kvs[1]
      kv2 == rk'[0].kvs[1]
      buf == last.log[2]
      big == \E i \in 1..Len(buf) :
               PackedSize(buf[i], kv.kalign, kv.valign) > kv.pagesize
  IN  /\ big => rk'[0].err = Oversize
      /\ ~big => OK(rk'[0])
      /\ /\ ~big
         /\ buf # <<>>
         /\ kv.alignsize > 0
         /\ kv.alignsize + PackedSize(buf[1], kv.kalign, kv.valign) > kv.pagesize
         => /\ kv2.npage > kv.npage
            /\ kv2.pages[kv.npage + 1].nkey = kv.nkey
            /\ kv2.pages[kv.npage + 1].alignsize = kv.alignsize
            /\ FirstOfPage(rk'[0], 1, kv.npage + 1) = buf[1]

\* C11: a pair whose aligned packed size is exactly the page size is accepted
\* into an empty page and fills that one page; a pair whose aligned packed
\* size exceeds the page size ends in the fatal error "Single key/value pair
\* exceeds page size", in the single add and in the add of a buffer of packed
\* pairs; a pair that only does not fit the rest of a non-empty page makes the
\* page be flushed and becomes the first pair of the next page
C11_PageSizeLimit ==
  [][/\ \A rec \in Recs : KVAdd(rec) => SingleAddLimit(rec)
     /\ KVAddKV => BufferAddLimit]_vars

\* the add of a buffer with the container's own alignments met a pair larger
\* than a page, after a pair that fitted
C11_Witness ==
  /\ last.tried = "add_kv"
  /\ rk[0].err = Oversize
  /\ rk[0].kvs[2].kalign = rk[0].kvs[1].kalign
  /\ rk[0].kvs[2].valign = rk[0].kvs[1].valign
  /\ Len(last.log[2]) >= 2

\* nothing was handed to the container and complete() has returned
EmptyCompleted == last.op = "complete" /\ last.log[1] = <<>>

ZeroTotals(kv) == kv.nkv = 0 /\ kv.ksize = 0 /\ kv.vsize = 0 /\ kv.tsize = 0

\* C12 as stated: a KeyValue to which no pair was added has, after
\* complete(), zero pages (request_info returns 0) and zero totals
C12_EmptyZeroPages ==
  EmptyCompleted =>
    rk[0].kvs[1].npage = 0 /\ ZeroTotals(rk[0].kvs[1])

\* C12 amended: a KeyValue to which no pair was added has, after complete(),
\* one page (request_info returns 1) whose descriptor counts no pair and no
\* byte, no spill file, and zero totals
C12_EmptyOnePage ==
  EmptyCompleted =>
    LET kv == rk[0].kvs[1]
    IN  /\ kv.npage = 1
        /\ kv.pages[1].nkey = 0
        /\ kv.pages[1].exactsize = 0
        /\ kv.pages[1].alignsize = 0
        /\ kv.pages[1].filesize = 0
        /\ kv.fileflag = 0
        /\ ZeroTotals(kv)

\* complete() of a container nothing was added to, also after an append()
C12_Witness ==
  /\ EmptyCompleted
  /\ last.ncompl >= 2

\* the pages of container kv, the one being filled included: after complete()
\* npage counts them all, before it the in-memory page is one more
PagesInUse(kv) == IF last.phase = "complete" THEN kv.npage ELSE kv.npage + 1

\* C13: a KeyValue that never exceeds one page never opens or creates its
\* spill file: whatever adds, adds of buffers, copy, append and complete were
\* called, once complete() has returned fileflag is set if and only if the
\* KeyValue has more than one page; and a KeyValue whose fileflag is not set
\* has no file and no open file handle, at every moment
C13_FileIffSeveralPages ==
  LET kv == rk[0].kvs[1]
  IN  /\ last.phase = "complete" => (kv.fileflag = 1 <=> kv.npage > 1)
      /\ kv.fileflag = 1 <=> PagesInUse(kv) > 1
      /\ kv.fileflag = 0 => kv.filename \notin DOMAIN rk[0].fs /\ kv.fp = FPNULL

\* a one-page container completed a second time, after append() and the add
\* of the pages of the other container, without a file
C13_Witness ==
  /\ last.op = "complete"
  /\ last.ncompl >= 2
  /\ rk[0].kvs[1].npage = 1
  /\ rk[0].kvs[1].nkv >= 1
  /\ Len(last.log[1]) > last.nadds
  /\ rk[0].kvs[1].filename \notin DOMAIN rk[0].fs

\* the descriptors of container kv are well formed
PagesWellFormed(kv) ==
  \A i \in 1..Len(kv.pages) :
    LET pg == kv.pages[i]
    IN  /\ pg.exactsize <= pg.alignsize
        /\ pg.alignsize <= kv.pagesize
        /\ pg.filesize >= pg.alignsize
        /\ pg.filesize < pg.alignsize + ALIGNFILE
        /\ pg.filesize % ALIGNFILE = 0
        /\ pg.filesize <= kv.pagesize
        /\ pg.fileoffset % ALIGNFILE = 0
        /\ pg.fileoffset = IF i = 1 THEN 0
                           ELSE kv.pages[i - 1].fileoffset + kv.pages[i - 1].filesize

\* C14: every page descriptor is well formed: exactsize <= alignsize <=
\* pagesize, filesize is alignsize rounded up to a multiple of the file
\* alignment unit and is at most pagesize, fileoffset is a multiple of the
\* unit, the first page is at offset 0 and every other page starts where the
\* page before it ends, so that pages do not overlap in the spill file;
\* after every sequence of adds, spills, append, copy and complete
C14_PagesWellFormed ==
  \A id \in DOMAIN rk[0].kvs : PagesWellFormed(rk[0].kvs[id])

\* three pages after a second complete(), one of them not at the start of
\* the file and with a size that is not a multiple of the unit
C14_Witness ==
  /\ last.op = "complete"
  /\ last.ncompl >= 2
  /\ rk[0].kvs[1].npage >= 3
  /\ \E i \in 2..rk[0].kvs[1].npage :
       /\ rk[0].kvs[1].pages[i].alignsize % ALIGNFILE # 0
       /\ rk[0].kvs[1].pages[i].fileoffset > 0

(***************************************************************************)
(* SpecAlign: where KeyValue::add puts the pairs of a page, as addresses.  *)
(* The arithmetic of the source rounds pointers, not offsets; the slab of  *)
(* an engine starts at a multiple of ALIGNFILE (mapreduce.cpp:256), and    *)
(* keyalign and valuealign may be any power of two (mapreduce.cpp:264-269).*)
(* rk[0] is a container and `other` the page it is handed by add(kv).      *)
(***************************************************************************)
AlignBits   == 4          \* alignments 1, 2, .. 2^AlignBits
MaxAlignOps == 3          \* adds per behaviour

Alignments == {Pow2(i) : i \in 0..AlignBits}

\* addresses a slab can start at
SlabAddrs == {2 * ALIGNFILE, 3 * ALIGNFILE}

\* keybytes and valuebytes of the pairs added
PairLens == {<<0, 0>>, <<1, 0>>, <<5, 1>>}

\* the pointers of KeyValue::add (keyvalue.cpp:237-244) for a pair put at iptr
add_layout(iptr, keybytes, valuebytes, kalignm1, valignm1, talignm1) ==
  LET kptr == ROUNDUP(iptr + 2 * SIZEOFINT, kalignm1)
      vptr == ROUNDUP(kptr + keybytes, valignm1)
      nptr == ROUNDUP(vptr + valuebytes, talignm1)
  IN  [start |-> iptr, key |-> kptr, value |-> vptr, next |-> nptr,
       keybytes |-> keybytes, valuebytes |-> valuebytes]

\* kv->add(key,keybytes,value,valuebytes) on the page at c.page
add_pair(c, keybytes, valuebytes, kalign, valign, talign) ==
  LET r == add_layout(c.page + c.alignsize, keybytes, valuebytes,
                      kalign - 1, valign - 1, talign - 1)
  IN  [c EXCEPT !.recs = Append(@, r), !.alignsize = @ + (r.next - r.start)]

\* memcpy(&page[alignsize],ptr,alignsize_buf) (keyvalue.cpp:457): the pairs
\* of the buffer keep their distances from one another
add_copied(c, buf) ==
  LET shift == (c.page + c.alignsize) - buf.page
  IN  [c EXCEPT !.recs = @ \o [i \in 1..Len(buf.recs) |->
                                 [start |-> buf.recs[i].start + shift,
                                  key   |-> buf.recs[i].key + shift,
                                  value |-> buf.recs[i].value + shift,
                                  next  |-> buf.recs[i].next + shift,
                                  keybytes   |-> buf.recs[i].keybytes,
                                  valuebytes |-> buf.recs[i].valuebytes]],
                !.alignsize = @ + buf.alignsize]

InitAlign ==
  \E ka \in Alignments, va \in Alignments, p \in SlabAddrs, q \in SlabAddrs :
    /\ rk = [r \in {0} |->
              [kalign |-> ka, valign |-> va,
               talign |-> Max(Max(ka, va), SIZEOFINT),
               page |-> p, alignsize |-> 0, recs |-> <<>>,
               other |-> [page |-> q, alignsize |-> 0, recs |-> <<>>]]]
    /\ last = [op |-> "new"]
    /\ nops = 0

\* kv->add(key,keybytes,value,valuebytes)
AlignAdd(l) ==
  /\ nops < MaxAlignOps
  /\ rk' = [rk EXCEPT ![0] =
              add_pair(@, l[1], l[2], rk[0].kalign, rk[0].valign, rk[0].talign)]
  /\ last' = [op |-> "add"]
  /\ nops' = nops + 1

\* the same add on the container that is handed over later
AlignAddOther(l) ==
  /\ nops < MaxAlignOps
  /\ rk' = [rk EXCEPT ![0].other =
              add_pair(@, l[1], l[2], rk[0].kalign, rk[0].valign, rk[0].talign)]
  /\ last' = [op |-> "add_other"]
  /\ nops' = nops + 1

\* kv->add(n,buf,keysize,valuesize,alignsize) with the page of the other
AlignAddBuf ==
  /\ nops < MaxAlignOps
  /\ rk[0].other.recs # <<>>
  /\ rk' = [rk EXCEPT ![0] = add_copied(@, rk[0].other)]
  /\ last' = [op |-> "add_buf"]
  /\ nops' = nops + 1

NextAlign ==
  \/ \E l \in PairLens : AlignAdd(l)
  \/ \E l \in PairLens : AlignAddOther(l)
  \/ AlignAddBuf

SpecAlign == InitAlign /\ [][NextAlign]_vars

\* every pair of the page of c is at offsets that are multiples of the
\* alignments
RecordsAligned(c, kalign, valign, talign) ==
  \A i \in 1..Len(c.recs) :
    /\ (c.recs[i].start - c.page) % talign = 0
    /\ (c.recs[i].key - c.page) % kalign = 0
    /\ (c.recs[i].value - c.page) % valign = 0

\* C15: within every page every pair starts at an offset that is a multiple
\* of talign = max(kalign, valign, 4), its key at a multiple of kalign and its
\* value at a multiple of valign, for pairs placed by the single add and for
\* pairs placed by the add of a buffer of packed pairs, for every power of
\* two kalign and valign
C15_RecordsAligned ==
  RecordsAligned(rk[0], rk[0].kalign, rk[0].valign, rk[0].talign)

\* the same for alignments up to the unit the slab is aligned to
AlignedUpToUnit ==
  rk[0].kalign <= ALIGNFILE /\ rk[0].valign <= ALIGNFILE => C15_RecordsAligned
(***************************************************************************)
(* Spec: an application drives engines through the operators of            *)
(* MapReduce on a group of one or two ranks.  It has constructed engine 1  *)
(* and perhaps engine 2 at the start; otherwise engine 2 is constructed or *)
(* copied from engine 1 later.  Every rank makes the same calls (SPMD); an *)
(* operator call is one step.  After a fatal error the group is gone and   *)
(* nothing more happens.                                                   *)
(***************************************************************************)
ProcCounts == {1, 2}      \* sizes of the group
MapCounts  == {1, 5}      \* nmap of map()
MapFns     == {"pair", "same"}
MapKVFns   == {"swap"}
ReduceFns  == {"count"}
Hashes     == {"NULL", "first", "neg"}
Garbages   == {"zeros", "iota", "wild"}
CollapseKey == <<7>>      \* the key given to collapse and scrunch

\* the heap of rank me of a group of nprocs ranks before anything is made
NewHeap(me, nprocs) ==
  [EmptyHeap EXCEPT !.mem = <<>>, !.me = me, !.nprocs = nprocs]

Ranks   == DOMAIN rk
Engines == DOMAIN rk[0].mr

\* the orders in which the data of the sources can arrive
SrcOrders == IF Cardinality(Ranks) = 1 THEN {<<0>>} ELSE {<<0, 1>>, <<1, 0>>}

\* the worker of every task under mapstyle 2: with one worker there is no
\* choice
Assign(nmap) == [i \in 1..nmap |-> 1] \o <<>>

Init ==
  \E n \in ProcCounts, two \in BOOLEAN :
    /\ rk = [r \in 0..(n - 1) |->
               IF two THEN NewEngine(NewEngine(NewHeap(r, n), 1), 2)
               ELSE NewEngine(NewHeap(r, n), 1)]
    /\ last = [op |-> "new", e |-> 1, arg |-> <<>>, err |-> "", ret |-> 0,
               held |-> "none", pre |-> [r \in 0..(n - 1) |-> <<>>],
               prepages |-> [r \in 0..(n - 1) |-> 0], other |-> <<>>,
               post |-> [r \in 0..(n - 1) |-> <<>>],
               postpages |-> [r \in 0..(n - 1) |-> 0]]
    /\ nops = 0

\* one operator call on engine e
Step(op, e, arg, f, a, collective) ==
  \E o \in {Call("Outcome", <<rk, op, e, arg, f, a, collective>>)} :
    /\ rk' = o.rk
    /\ last' = o.last
    /\ nops' = nops + 1

Ready == nops < MaxOps /\ AllOK(rk)

\* mr2 = new MapReduce(comm)
NewMR ==
  /\ Ready /\ 2 \notin Engines
  /\ Step("new", 2, <<>>, "NewEngine", <<2>>, FALSE)

\* mr2 = mr->copy()
CopyMR ==
  /\ Ready /\ 2 \notin Engines
  /\ Step("copy", 2, <<1>>, "MR_copy", <<1, 2>>, FALSE)

\* mr->map(nmap,fn,NULL,addflag)
Map(e, nmap, fn, addflag) ==
  /\ Ready
  /\ Step("map", e, <<nmap, fn, addflag>>,
          "MR_map", <<e, nmap, fn, addflag, Assign(nmap)>>, FALSE)

\* mr->map(src,fn,NULL,addflag)
MapMR(e, src, fn, addflag) ==
  /\ Ready
  /\ Step("map_mr", e, <<src, fn, addflag>>,
          "MR_map_mr", <<e, src, fn, addflag>>, FALSE)

\* mr->add(other)
Add(e, other) ==
  /\ Ready
  /\ Step("add", e, <<other>>, "MR_add", <<e, other>>, FALSE)

\* mr->aggregate(hash)
Aggregate(e, hash, srcs) ==
  /\ Ready
  /\ Step("aggregate", e, <<hash>>,
          "MR_aggregate", <<e, hash, srcs>>, TRUE)

\* mr->convert()
Convert(e) ==
  /\ Ready
  /\ Step("convert", e, <<>>, "MR_convert", <<e>>, FALSE)

\* mr->collate(hash)
Collate(e, hash, srcs) ==
  /\ Ready
  /\ Step("collate", e, <<hash>>,
          "MR_collate", <<e, hash, srcs>>, TRUE)

\* mr->clone()
Clone(e) ==
  /\ Ready
  /\ Step("clone", e, <<>>, "MR_clone", <<e>>, FALSE)

\* mr->collapse(key,keybytes)
Collapse(e) ==
  /\ Ready
  /\ Step("collapse", e, <<>>, "MR_collapse", <<e, CollapseKey>>, FALSE)

\* mr->compress(fn,NULL)
Compress(e, fn) ==
  /\ Ready
  /\ Step("compress", e, <<fn>>, "MR_compress", <<e, fn>>, FALSE)

\* mr->reduce(fn,NULL)
Reduce(e, fn) ==
  /\ Ready
  /\ Step("reduce", e, <<fn>>, "MR_reduce", <<e, fn>>, FALSE)

\* mr->gather(numprocs)
Gather(e, numprocs) ==
  /\ Ready
  /\ Step("gather", e, <<numprocs>>,
          "MR_gather", <<e, numprocs>>, TRUE)

\* mr->scrunch(numprocs,key,keybytes)
Scrunch(e, numprocs) ==
  /\ Ready
  /\ Step("scrunch", e, <<numprocs>>,
          "MR_scrunch", <<e, numprocs, CollapseKey>>, TRUE)

\* mr->sort_keys(compare)
SortKeys(e) ==
  /\ Ready
  /\ Step("sort_keys", e, <<>>, "MR_sort", <<e, 0>>, FALSE)

\* mr->sort_values(compare)
SortValues(e) ==
  /\ Ready
  /\ Step("sort_values", e, <<>>, "MR_sort", <<e, 1>>, FALSE)

\* mr->sort_multivalues(compare); g is what the allocator left in the array
\* order
SortMultivalues(e, g) ==
  /\ Ready
  /\ Step("sort_multivalues", e, <<>>, "MR_sort_multivalues", <<e, g>>, FALSE)

Next ==
  \/ NewMR
  \/ CopyMR
  \/ \E e \in Engines, nmap \in MapCounts, fn \in MapFns, addflag \in {0, 1} :
       Map(e, nmap, fn, addflag)
  \/ \E src \in Engines, fn \in MapKVFns, addflag \in {0, 1} :
       MapMR(1, src, fn, addflag)
  \/ \E other \in Engines : Add(1, other)
  \/ \E hash \in Hashes, srcs \in SrcOrders : Aggregate(1, hash, srcs)
  \/ Convert(1)
  \/ \E hash \in Hashes, srcs \in SrcOrders : Collate(1, hash, srcs)
  \/ Clone(1)
  \/ Collapse(1)
  \/ \E fn \in ReduceFns : Compress(1, fn)
  \/ \E fn \in ReduceFns : Reduce(1, fn)
  \/ \E numprocs \in 0..(Cardinality(Ranks) + 1) : Gather(1, numprocs)
  \/ \E numprocs \in 0..(Cardinality(Ranks) + 1) : Scrunch(1, numprocs)
  \/ SortKeys(1)
  \/ SortValues(1)
  \/ \E g \in Garbages : SortMultivalues(1, g)

Spec == Init /\ [][Next]_vars


(***************************************************************************)
(* Properties of the driver                                                *)
(***************************************************************************)
\* the operators that leave a KV, and those that leave a KMV
KVOps  == {"map", "map_mr", "add", "aggregate", "compress", "reduce", "gather",
           "sort_keys", "sort_values"}
KMVOps == {"convert", "collate", "clone", "collapse", "scrunch",
           "sort_multivalues"}

\* the container handles of engine e are live objects of their kind
HandlesLive(H, e) ==
  /\ H.mr[e].kv # NULL =>
       H.mr[e].kv \in DOMAIN H.kvs /\ "nkmv" \notin DOMAIN H.kvs[H.mr[e].kv]
  /\ H.mr[e].kmv # NULL =>
       H.mr[e].kmv \in DOMAIN H.kvs /\ "nkmv" \in DOMAIN H.kvs[H.mr[e].kmv]

\* C1: between operator calls no engine holds both a KV and a KMV, and an
\* operator that returned left the kind of container of its row: a KV and no
\* KMV after map, add, aggregate, compress, reduce, gather, sort_keys and
\* sort_values, a KMV and no KV after convert, collate, clone, collapse,
\* scrunch and sort_multivalues
C1_OneContainer ==
  \A r \in Ranks :
    AllOK(rk) =>
      /\ \A e \in DOMAIN rk[r].mr :
           Holds(rk[r], e) # "both" /\ HandlesLive(rk[r], e)
      /\ last.op \in KVOps => Holds(rk[r], last.e) = "kv"
      /\ last.op \in KMVOps => Holds(rk[r], last.e) = "kmv"

\* a reduce of a KMV of several pairs returned, after a map and a convert
C1_Witness ==
  /\ last.op = "reduce" /\ last.err = "" /\ last.held = "kmv"
  /\ last.ret > 1
  /\ \A r \in Ranks : Holds(rk[r], 1) = "kv"

\* the working pages of the containers of engine e differ from the quarter
\* memavail names for the next container
AvailFree(H, e) ==
  /\ H.mr[e].kv # NULL => H.kvs[H.mr[e].kv].page # H.mr[e].memavail
  /\ H.mr[e].kmv # NULL => H.kvs[H.mr[e].kmv].page # H.mr[e].memavail

BetweenOperators ==
  AllOK(rk) =>
    \A r \in Ranks : \A e \in DOMAIN rk[r].mr : AvailFree(rk[r], e)

\* C2 as stated: no operator ever has two live containers with the same
\* working page, and between operators memavail is not the page of the live
\* container
C2_NeverShared ==
  /\ \A r \in Ranks : ~rk[r].overlap
  /\ BetweenOperators

\* the operators that call KeyValue::copy: the copy of an engine and map(mr)
\* of an engine onto itself with addflag
CallsKVCopy ==
  \/ last.op = "copy"
  \/ last.op = "map_mr" /\ last.arg[1] = last.e /\ last.arg[3] = 1

\* C2: two live containers have the same working page only inside an
\* operator that calls KeyValue::copy (which works in the page of its
\* source), and between operators memavail is not the page of the live
\* container
C2_SharedOnlyInCopy ==
  /\ \A r \in Ranks : rk[r].overlap => CallsKVCopy
  /\ BetweenOperators

\* a compress, which has a KMV and a new KV live at once, returned with
\* pairs, and its containers never had the same page
C2_Witness ==
  /\ last.op = "compress" /\ last.err = "" /\ last.ret > 0
  /\ \A r \in Ranks : ~rk[r].overlap /\ rk[r].mr[1].allocated = 1

\* the records of all ranks, rank after rank
RECURSIVE AllRecs(_, _)
AllRecs(f, r) == IF r \notin DOMAIN f THEN <<>> ELSE f[r] \o AllRecs(f, r + 1)

\* how often x occurs in the list s
RECURSIVE CountIn(_, _)
CountIn(s, x) ==
  IF s = <<>> THEN 0
  ELSE (IF Head(s) = x THEN 1 ELSE 0) + CountIn(Tail(s), x)

\* the lists s and t hold the same records the same number of times
SameBag(s, t) ==
  /\ Len(s) = Len(t)
  /\ \A i \in 1..Len(s) : CountIn(s, s[i]) = CountIn(t, s[i])

NeedKV  == {"aggregate", "convert", "collate", "clone", "collapse", "compress",
            "gather", "scrunch", "sort_keys", "sort_values"}
NeedKMV == {"reduce", "sort_multivalues"}

\* the heaps are as before the call but for the error message
OnlyError ==
  /\ last'.err # ""
  /\ \A r \in Ranks : rk'[r] = [Entry(rk[r]) EXCEPT !.err = last'.err]

\* C7: an operator that needs a KV called on an engine without one, or one
\* that needs a KMV called on an engine without one, ends in a fatal error
\* with no container made or destroyed and the toggle as it was
C7_FailsBeforeChange ==
  [][(\/ last'.op \in NeedKV /\ rk[0].mr[last'.e].kv = NULL
      \/ last'.op \in NeedKMV /\ rk[0].mr[last'.e].kmv = NULL)
       => OnlyError]_vars

\* a reduce on an engine that has a KV and no KMV ended in the fatal error
C7_Witness ==
  /\ last.op = "reduce" /\ last.held = "kv"
  /\ last.err = "Cannot reduce without KeyMultiValue"

\* the pairs the tasks emit
RECURSIVE Emitted(_, _)
Emitted(fn, tasks) ==
  IF tasks = <<>> THEN <<>>
  ELSE MapEmits(fn, Head(tasks)) \o Emitted(fn, Tail(tasks))

\* what the tasks of rank r emit in map(nmap,fn)
EmittedOn(r, nmap, fn) ==
  Emitted(fn, TaskList(r, Cardinality(Ranks), 0, nmap, Assign(nmap), 0))

\* C8 as stated: map(n,fn) on an engine that holds a KMV is a fatal error
C8_MapRefusesKMV ==
  (last.op = "map" /\ last.held = "kmv") => last.err # ""

\* C8: map(n,fn) is accepted whatever the engine holds: it returns, the engine
\* has a KV and no KMV, and if it held a KMV that is deleted and the KV holds
\* what the tasks emitted
C8_MapAcceptsAny ==
  last.op = "map" =>
    /\ last.err = ""
    /\ \A r \in Ranks :
         /\ Holds(rk[r], last.e) = "kv"
         /\ last.held = "kmv" =>
              last.post[r] = EmittedOn(r, last.arg[1], last.arg[2])

\* a map with addflag on an engine that held a KMV returned with pairs
C8_Witness ==
  /\ last.op = "map" /\ last.held = "kmv" /\ last.arg[3] = 1
  /\ last.err = "" /\ last.ret > 0

\* C9: add(other) on an engine without KV, with an other without KV, or with
\* itself ends in a fatal error and changes nothing of either engine
C9_AddRefuses ==
  [][(/\ last'.op = "add"
      /\ \/ rk[0].mr[last'.e].kv = NULL
         \/ rk[0].mr[last'.arg[1]].kv = NULL
         \/ last'.arg[1] = last'.e)
       => OnlyError]_vars

\* an add of an engine that has a KV to itself ended in the fatal error
C9_Witness ==
  /\ last.op = "add" /\ last.arg[1] = last.e /\ last.held = "kv"
  /\ last.err = "Cannot add to self"
  /\ last.pre[0] # <<>>

\* C10: after add(other) the KV holds what it held followed by the records
\* of other, and after map(n,fn,addflag=1) on an engine that has a KV it
\* holds what it held followed by what the tasks emitted
C10_AppendKeeps ==
  /\ (last.op = "add" /\ last.err = "") =>
       \A r \in Ranks : last.post[r] = last.pre[r] \o last.other[r]
  /\ (last.op = "map" /\ last.err = "" /\ last.arg[3] = 1 /\ last.held = "kv") =>
       \A r \in Ranks :
         last.post[r] = last.pre[r] \o EmittedOn(r, last.arg[1], last.arg[2])

\* the list values as a multiset: how often each of its elements occurs
BagOf(values) ==
  [v \in {values[i] : i \in 1..Len(values)} |-> CountIn(values, v)]

\* KMV pairs with their values as multisets
RECURSIVE Groups(_)
Groups(pairs) ==
  IF pairs = <<>> THEN <<>>
  ELSE <<[key |-> Head(pairs).key, values |-> BagOf(Head(pairs).values)]>>
         \o Groups(Tail(pairs))

\* aggregate(hash) with the arrival order srcs2, then convert(), from the
\* present state
AggregateThenConvert(hash, srcs2) ==
  LET A == Run(rk, "MR_aggregate", <<1, hash, srcs2>>, TRUE)
  IN  IF AllOK(A) THEN Run(A, "MR_convert", <<1>>, FALSE) ELSE A

\* the step is a returned collate(hash) that leaves what B holds
CollateAs(B) ==
  /\ AllOK(B)
  /\ last'.ret = SumRet(B, 0)
  /\ \A r \in Ranks :
       /\ SameBag(Groups(KMVContents(rk'[r], 1)), Groups(KMVContents(B[r], 1)))
       /\ rk'[r].mr[1].kv = NULL /\ B[r].mr[1].kv = NULL
       /\ rk'[r].mr[1].kmv # NULL /\ B[r].mr[1].kmv # NULL
       /\ rk'[r].mr[1].memtoggle = B[r].mr[1].memtoggle
       /\ rk'[r].mr[1].memavail = B[r].mr[1].memavail
       /\ last'.ret >= Len(KMVContents(rk'[r], 1))

\* C16: collate(hash) is aggregate(hash) followed by convert(): from the same
\* state on every rank it leaves the same KMV as a multiset of (key, multiset
\* of values), no KV and the same position of the memory toggle, whatever the
\* order in which the data arrives in either run, and it returns the number
\* of KMV pairs of the whole group
C16_CollateIsAggregateConvert ==
  [][last'.op = "collate" /\ last'.err = ""
       => \A srcs2 \in SrcOrders :
            CollateAs(AggregateThenConvert(last'.arg[1], srcs2))]_vars

\* a collate on two ranks that moved pairs and grouped several values
C16_Witness ==
  /\ last.op = "collate" /\ last.err = ""
  /\ Cardinality(Ranks) = 2
  /\ \E r \in Ranks : last.pre[r] # <<>> /\ KMVContents(rk[r], 1) # <<>>
  /\ \E r \in Ranks : \E i \in 1..Len(KMVContents(rk[r], 1)) :
       Len(KMVContents(rk[r], 1)[i].values) >= 2
  /\ last.ret >= 2

(***************************************************************************)
(* SpecSort: one rank has filled the KV of an engine with a map; it fills  *)
(* it anew (the KV is then in the other quarter) and sorts it, by key or   *)
(* by value.                                                               *)
(***************************************************************************)
SortMaps   == {2, 3, 5}   \* nmap of the map calls
SortMapFns == {"pair", "same", "sizes", "empty"}

InitSort ==
  \E nmap \in SortMaps, fn \in SortMapFns :
    \E o \in {Call("Outcome",
                   <<[r \in {0} |-> NewEngine(NewHeap(0, 1), 1)], "map", 1,
                     <<nmap, fn, 0>>, "MR_map",
                     <<1, nmap, fn, 0, Assign(nmap)>>, FALSE>>)} :
      /\ rk = o.rk
      /\ last = o.last
      /\ nops = 0

NextSort ==
  \/ SortKeys(1)
  \/ SortValues(1)
  \/ \E nmap \in SortMaps, fn \in SortMapFns : Map(1, nmap, fn, 0)

SpecSort == InitSort /\ [][NextSort]_vars

\* the list of byte strings is non-decreasing under the comparator
NonDecreasing(strs) ==
  \A i \in 1..(Len(strs) - 1) : CompareBytes(strs[i], strs[i + 1]) <= 0

\* C17: after sort_keys(cmp) (sort_values(cmp)) the KV of the rank holds the
\* same multiset of pairs as before, and its pairs in page order are
\* non-decreasing in the key (the value) under cmp, for a KV of one page
\* (sort of an index array in memory) and for a KV of several pages (sorted
\* pages to spools, then merges of two spools)
C17_SortedSameBag ==
  last.op \in {"sort_keys", "sort_values"} /\ last.err = "" =>
    \A r \in Ranks :
      /\ SameBag(last.pre[r], last.post[r])
      /\ NonDecreasing(SortStrs(IF last.op = "sort_keys" THEN 0 ELSE 1,
                                last.post[r]))

(***************************************************************************)
(* SpecGather: a group of one to four ranks has filled the KV of engine 1  *)
(* with a map; it gathers the KV to fewer ranks and maps more pairs into   *)
(* it.                                                                     *)
(***************************************************************************)
GatherProcs  == 1..4      \* sizes of the group
GatherMaps   == {3, 8}    \* nmap of the map calls
GatherMapFns == {"pair", "same"}

InitGather ==
  \E n \in GatherProcs, nmap \in GatherMaps, fn \in GatherMapFns :
    LET H0 == [r \in 0..(n - 1) |-> NewEngine(NewHeap(r, n), 1)]
        H1 == Run(H0, "MR_map", <<1, nmap, fn, 0, Assign(nmap)>>, FALSE)
    IN  /\ rk = H1
        /\ last = [op |-> "map", e |-> 1, arg |-> <<nmap, fn, 0>>, err |-> "",
                   ret |-> SumRet(H1, 0), held |-> "none",
                   pre |-> [r \in 0..(n - 1) |-> <<>>],
                   prepages |-> [r \in 0..(n - 1) |-> 0],
                   other |-> <<>>, post |-> ContentsAll(H1, 1, 0),
                   postpages |-> PagesAll(H1, 1, 0)]
        /\ nops = 0

NextGather ==
  \/ \E numprocs \in 0..(Cardinality(Ranks) + 1) : Gather(1, numprocs)
  \/ \E nmap \in GatherMaps, fn \in GatherMapFns : Map(1, nmap, fn, 1)

SpecGather == InitGather /\ [][NextGather]_vars

\* the records of rank r followed by those of the ranks r + p, r + 2p, ..
RECURSIVE FromHigher(_, _, _)
FromHigher(pre, r, p) ==
  IF r \notin DOMAIN pre THEN <<>> ELSE pre[r] \o FromHigher(pre, r + p, p)

\* the records of the ranks r.. one after the other
RECURSIVE AllRecords(_, _)
AllRecords(c, r) ==
  IF r \notin DOMAIN c THEN <<>> ELSE c[r] \o AllRecords(c, r + 1)

\* C18: gather(p) on a group that holds a KV: with p < 1 or p > nprocs it is
\* a fatal error; with p = nprocs or nprocs = 1 it returns and changes
\* nothing of any rank but the value returned; with 1 <= p < nprocs it
\* returns, every rank r >= p holds an empty KV, every rank r < p holds its
\* previous records followed by those of the ranks r + p, r + 2p, .. in this
\* order, and the multiset of the records of the group is the same
C18_Gather ==
  [][last'.op = "gather" /\ rk[0].mr[1].kv # NULL =>
       LET p == last'.arg[1]
           n == Cardinality(Ranks)
       IN  IF p < 1 \/ p > n
           THEN last'.err = "Invalid proc count for gather"
           ELSE /\ last'.err = ""
                /\ IF n = 1 \/ p = n
                   THEN /\ last'.post = last'.pre
                        /\ \A r \in Ranks : [rk'[r] EXCEPT !.ret = 0]
                                              = [rk[r] EXCEPT !.ret = 0]
                   ELSE /\ \A r \in Ranks :
                             last'.post[r] = IF r >= p THEN <<>>
                                             ELSE FromHigher(last'.pre, r, p)
                        /\ SameBag(AllRecords(last'.pre, 0),
                                   AllRecords(last'.post, 0))]_vars

\* a gather of four ranks to two: every rank had records, the two ranks that
\* sent are empty and a rank that received has a KV of several pages
C18_Witness ==
  /\ last.op = "gather" /\ last.err = "" /\ last.arg = <<2>>
  /\ Cardinality(Ranks) = 4
  /\ \A r \in Ranks : last.pre[r] # <<>>
  /\ last.post[2] = <<>> /\ last.post[3] = <<>>
  /\ Len(last.post[1]) > Len(last.pre[1])
  /\ last.postpages[0] >= 2

(***************************************************************************)
(* SpecMap: the ranks of a group are in map(nmap,fn) and hand the tasks    *)
(* out.  Every rank is a process; with mapstyle 2 rank 0 is the master,    *)
(* the messages between the master and a worker are queues in last.to and  *)
(* last.from, and a step is what a rank does between two receives.  Only   *)
(* the calls of the callback are recorded (called); what the callback      *)
(* emits goes to the KV as in MR_map.  sent and nrecv are history: what    *)
(* the master has sent to each worker and how many messages it received.   *)
(***************************************************************************)
MapProcs  == 1..3         \* sizes of the group
MapStyles == 0..3         \* settings of mapstyle
MapTasks  == 0..4         \* nmap
DoneFlag  == -1

InitMap ==
  \E n \in MapProcs, mapstyle \in MapStyles, nmap \in MapTasks :
    /\ rk = [r \in 0..(n - 1) |->
               [me |-> r, nprocs |-> n, mapstyle |-> mapstyle, nmap |-> nmap,
                pc |-> "start", itask |-> 0, ndone |-> 0, called |-> <<>>,
                sent |-> [w \in 1..(n - 1) |-> <<>>], nrecv |-> 0,
                err |-> ""]]
    /\ last = [op |-> "map", to |-> [r \in 1..(n - 1) |-> <<>>],
               from |-> [r \in 1..(n - 1) |-> <<>>]]
    /\ nops = 0

\* a master that sends the done flag without counting it
map_send_uncounted(m, to, iproc) ==
  IF m.itask < m.nmap
  THEN [m  |-> [m EXCEPT !.itask = @ + 1,
                         !.sent[iproc] = Append(@, m.itask)],
        to |-> [to EXCEPT ![iproc] = Append(@, m.itask)]]
  ELSE [m  |-> [m EXCEPT !.sent[iproc] = Append(@, DoneFlag)],
        to |-> [to EXCEPT ![iproc] = Append(@, DoneFlag)]]

\* if (itask < nmap) { MPI_Send(&itask,..,iproc,..); itask++; }
\* else { MPI_Send(&doneflag,..,iproc,..); ndone++; }
\* on the master m with the queues to the workers
map_send(m, to, iproc) ==
  IF m.itask < m.nmap
  THEN [m  |-> [m EXCEPT !.itask = @ + 1,
                         !.sent[iproc] = Append(@, m.itask)],
        to |-> [to EXCEPT ![iproc] = Append(@, m.itask)]]
  ELSE [m  |-> [m EXCEPT !.ndone = @ + 1,
                         !.sent[iproc] = Append(@, DoneFlag)],
        to |-> [to EXCEPT ![iproc] = Append(@, DoneFlag)]]

\* for (int iproc = 1; iproc < nprocs; iproc++) ..
RECURSIVE map_seed(_, _, _)
map_seed(m, to, iproc) ==
  IF iproc >= m.nprocs THEN [m |-> m, to |-> to]
  ELSE LET s == map_send(m, to, iproc) IN map_seed(s.m, s.to, iproc + 1)

\* a rank of a group of one, or with mapstyle 0 or 1, runs its tasks and
\* completes the KV
MapLocal(me) ==
  /\ rk[me].pc = "start"
  /\ rk[me].nprocs = 1 \/ rk[me].mapstyle \in {0, 1}
  /\ rk' = [rk EXCEPT ![me].called =
                        TaskList(me, rk[me].nprocs, rk[me].mapstyle,
                                 rk[me].nmap, <<>>, 0),
                      ![me].pc = "done"]
  /\ nops' = nops + 1
  /\ UNCHANGED last

\* else error->all("Invalid mapstyle setting");
MapInvalid(me) ==
  /\ rk[me].pc = "start"
  /\ rk[me].nprocs # 1 /\ rk[me].mapstyle \notin {0, 1, 2}
  /\ rk' = [rk EXCEPT ![me].pc = "fatal",
                      ![me].err = "Invalid mapstyle setting"]
  /\ nops' = nops + 1
  /\ UNCHANGED last

\* the master sends a task or the done flag to every worker
MasterSeed ==
  /\ rk[0].pc = "start"
  /\ rk[0].nprocs # 1 /\ rk[0].mapstyle = 2
  /\ LET s == map_seed(rk[0], last.to, 1)
     IN  /\ rk' = [rk EXCEPT ![0] = [s.m EXCEPT !.pc = "serve"]]
         /\ last' = [last EXCEPT !.to = s.to]
  /\ nops' = nops + 1

\* while (ndone < nprocs-1) : the master receives from any worker and sends
\* it the next task or the done flag
MasterServe(iproc) ==
  /\ rk[0].pc = "serve"
  /\ rk[0].ndone < rk[0].nprocs - 1
  /\ last.from[iproc] # <<>>
  /\ LET s == map_send([rk[0] EXCEPT !.nrecv = @ + 1], last.to, iproc)
     IN  /\ rk' = [rk EXCEPT ![0] = s.m]
         /\ last' = [last EXCEPT !.to = s.to, !.from[iproc] = Tail(@)]
  /\ nops' = nops + 1

\* the master leaves the loop and completes the KV
MasterDone ==
  /\ rk[0].pc = "serve"
  /\ rk[0].ndone >= rk[0].nprocs - 1
  /\ rk' = [rk EXCEPT ![0].pc = "done"]
  /\ nops' = nops + 1
  /\ UNCHANGED last

\* while (1) : a worker receives a task, runs it and reports, or receives
\* the done flag and completes the KV
WorkerStep(me) ==
  /\ me # 0
  /\ rk[me].pc \in {"start", "recv"}
  /\ rk[me].mapstyle = 2
  /\ last.to[me] # <<>>
  /\ LET itask == Head(last.to[me])
     IN  IF itask < 0
         THEN /\ rk' = [rk EXCEPT ![me].pc = "done"]
              /\ last' = [last EXCEPT !.to[me] = Tail(@)]
         ELSE /\ rk' = [rk EXCEPT ![me].pc = "recv",
                                  ![me].called = Append(@, itask)]
              /\ last' = [last EXCEPT !.to[me] = Tail(@),
                                      !.from[me] = Append(@, itask)]
  /\ nops' = nops + 1

NextMap ==
  \/ \E me \in Ranks : MapLocal(me)
  \/ \E me \in Ranks : MapInvalid(me)
  \/ MasterSeed
  \/ \E iproc \in Ranks \ {0} : MasterServe(iproc)
  \/ MasterDone
  \/ \E me \in Ranks : WorkerStep(me)

SpecMap == InitMap /\ [][NextMap]_vars

\* every rank is a running process and MPI delivers what was sent
SpecMapLive == SpecMap /\ WF_vars(NextMap)

\* the number of calls of the callback with task index i in the group
RECURSIVE CallsOf(_, _)
CallsOf(i, r) ==
  IF r \notin Ranks THEN 0
  ELSE CountIn(rk[r].called, i) + CallsOf(i, r + 1)

\* the setting is one of the three styles, or the group has one rank
StyleKnown == rk[0].nprocs = 1 \/ rk[0].mapstyle \in {0, 1, 2}

\* no index outside 0..nmap-1, none twice
AtMostOnce ==
  /\ \A r \in Ranks : \A k \in 1..Len(rk[r].called) :
       rk[r].called[k] \in 0..(rk[r].nmap - 1)
  /\ \A i \in 0..(rk[0].nmap - 1) : CallsOf(i, 0) <= 1

\* every rank has returned from map and every index was passed once
AllPassedOnce ==
  /\ \A r \in Ranks : rk[r].pc = "done"
  /\ \A i \in 0..(rk[0].nmap - 1) : CallsOf(i, 0) = 1

\* C19: in map(nmap,fn) with nmap >= 0, for mapstyle 0, 1 and 2 and for a
\* group of one rank, no callback call ever gets an index outside 0..nmap-1
\* and none gets an index that was passed before, and the map ends on every
\* rank with every index of 0..nmap-1 passed exactly once in the group
C19_EachTaskOnce ==
  /\ [](StyleKnown => AtMostOnce)
  /\ StyleKnown => <>[]AllPassedOnce

\* master/worker with two workers that both ran tasks, all tasks passed
C19_Witness ==
  /\ AllPassedOnce
  /\ Cardinality(Ranks) = 3 /\ rk[0].mapstyle = 2 /\ rk[0].nmap = 4
  /\ rk[0].called = <<>>
  /\ Len(rk[1].called) >= 1 /\ Len(rk[2].called) >= 2

\* what the master/worker exchange leaves is what TaskList gives for some
\* assignment of the tasks to the workers
MasterWorkerIsTaskList ==
  (rk[0].mapstyle = 2 /\ \A r \in Ranks : rk[r].pc = "done") =>
    \E assign \in [1..rk[0].nmap -> Ranks] :
      \A r \in Ranks :
        rk[r].called = TaskList(r, rk[0].nprocs, 2, rk[0].nmap, assign, 0)

\* C20: map with a mapstyle outside {0,1,2} runs no task and does not
\* return on any rank, whatever the size of the group: every rank that has
\* left the choice of the style is in the fatal error
C20_BadMapstyleFatal ==
  rk[0].mapstyle \notin {0, 1, 2} =>
    \A r \in Ranks : /\ rk[r].called = <<>>
                     /\ rk[r].pc \in {"start", "fatal"}
                     /\ rk[r].pc = "fatal"
                          => rk[r].err = "Invalid mapstyle setting"

(***************************************************************************)
(* SpecAlloc: an application makes an engine, sets memsize, keyalign and   *)
(* valuealign, and calls the operators that allocate the slab: map on the  *)
(* engine, a copy of the engine, an add.  It may change the settings       *)
(* between the calls.  The build wraps or traps on int overflow.           *)
(***************************************************************************)
OverflowMem   == (INTMAX \div MByte) + 1   \* least memsize whose byte count
                                           \* overflows an int (source: 2048)
AllocMemSizes == {-1, 0, 1, MemSize, OverflowMem, 2 * OverflowMem}
AllocAligns   == {-4, 0, 1, 3, 4}
AllocMaps     == {0, 1}

InitAlloc ==
  \E memsize \in AllocMemSizes, keyalign \in AllocAligns,
     valuealign \in AllocAligns, ub \in {"wrap", "trap"} :
    /\ rk = [r \in {0} |->
               MR_set(MapReduce_new([NewHeap(0, 1) EXCEPT !.ub = ub], 1), 1,
                      memsize, keyalign, valuealign)]
    /\ last = [op |-> "new", e |-> 1, arg |-> <<>>, err |-> "", ret |-> 0,
               held |-> "none", pre |-> [r \in {0} |-> <<>>],
               prepages |-> [r \in {0} |-> 0], other |-> <<>>,
               post |-> [r \in {0} |-> <<>>],
               postpages |-> [r \in {0} |-> 0]]
    /\ nops = 0

\* mr->memsize = memsize;
SetMemsize(e, memsize) ==
  /\ Ready
  /\ Step("set", e, <<memsize>>,
          "MR_set", <<e, memsize, rk[0].mr[e].keyalign,
                      rk[0].mr[e].valuealign>>, FALSE)

NextAlloc ==
  \/ \E nmap \in AllocMaps, addflag \in {0, 1} : Map(1, nmap, "pair", addflag)
  \/ CopyMR
  \/ \E memsize \in AllocMemSizes : SetMemsize(1, memsize)
  \/ \E e \in Engines, other \in Engines : Add(e, other)

SpecAlloc == InitAlloc /\ [][NextAlloc]_vars

\* n is a positive power of two
IsPow2(n) == \E k \in 0..30 : n = Pow2(k)

\* the step is a call that allocates the slab of engine last'.e : a map on
\* an engine without slab, or a copy of an engine that holds a container
Allocates ==
  \/ last'.op = "map" /\ rk[0].mr[last'.e].allocated = 0
  \/ last'.op = "copy" /\ Holds(rk[0], last'.arg[1]) # "none"

\* the settings the allocation of that step reads
AllocSettings ==
  LET m == rk[0].mr[IF last'.op = "copy" THEN last'.arg[1] ELSE last'.e]
  IN  IF last'.op = "copy" /\ m.allocated = 1
      THEN [memsize |-> m.memsize, keyalign |-> m.kalign, valuealign |-> m.valign]
      ELSE [memsize |-> m.memsize, keyalign |-> m.keyalign,
            valuealign |-> m.valuealign]

\* what the claim says of a step that allocates with the settings s
AllocatesAsStated(s) ==
  IF s.memsize <= 0 \/ ~IsPow2(s.keyalign) \/ ~IsPow2(s.valuealign)
  THEN /\ last'.err \in {"Invalid memsize setting", "Invalid alignment setting"}
       /\ \A r \in Ranks : /\ DOMAIN rk'[r].kvs = DOMAIN rk[r].kvs
                           /\ DOMAIN rk'[r].kmvs = DOMAIN rk[r].kmvs
  ELSE /\ last'.err = ""
       /\ \A r \in Ranks :
            LET m == rk'[r].mr[last'.e]
            IN  /\ m.allocated = 1
                /\ m.memquarter = s.memsize * (MByte \div 4)
                /\ m.memhalf % 2 = 0
                /\ m.memhalf \div 2 = s.memsize * (MByte \div 4)

\* C21: a map on an engine without slab and a copy of an engine that holds a
\* container end in the fatal error "Invalid memsize setting" or "Invalid
\* alignment setting" without a new container if memsize <= 0 or keyalign or
\* valuealign is not a positive power of two, and otherwise return with the
\* slab allocated, memquarter = memsize*MByte/4 and memhalf = memsize*MByte/2
C21_AllocateChecks ==
  [][Allocates => AllocatesAsStated(AllocSettings)]_vars

\* the same for the settings whose byte count fits an int
AllocateChecksInRange ==
  [][Allocates /\ ~MulOverflows(AllocSettings.memsize, MByte)
       => AllocatesAsStated(AllocSettings)]_vars

\* a copy allocated the slab of the new engine
CopyAllocated ==
  /\ last.op = "copy" /\ last.err = ""
  /\ rk[0].mr[2].allocated = 1 /\ rk[0].mr[2].kv # NULL

(***************************************************************************)
(* SpecReduce: the ranks have filled the KV of engine 1 with a map; they   *)
(* convert it and reduce the KMV, or compress the KV, with callbacks that  *)
(* count the values or report their arguments.                             *)
(***************************************************************************)
ReduceMaps    == {3, 5, 12}   \* nmap of the map call
ReduceMapFns  == {"pair", "same"}
ReduceArgFns  == {"count", "args"}

InitReduce ==
  \E n \in ProcCounts, nmap \in ReduceMaps, fn \in ReduceMapFns :
    \E o \in {Call("Outcome",
                   <<[r \in 0..(n - 1) |-> NewEngine(NewHeap(r, n), 1)], "map",
                     1, <<nmap, fn, 0>>, "MR_map",
                     <<1, nmap, fn, 0, Assign(nmap)>>, FALSE>>)} :
      /\ rk = o.rk
      /\ last = o.last
      /\ nops = 0

NextReduce ==
  \/ Convert(1)
  \/ \E fn \in ReduceArgFns : Reduce(1, fn)
  \/ \E fn \in ReduceArgFns : Compress(1, fn)

SpecReduce == InitReduce /\ [][NextReduce]_vars

\* what the callback "args" emits for the KMV pairs: for a pair in a page its
\* nvalues and the mark 0; for a block-split pair with header nvalues = -n
\* the value given (n if counted, -n if signed), the mark 1 of the NULL
\* multivalue, and what multivalue_blocks() returns, taken to be n
RECURSIVE ArgsSeen(_, _)
ArgsSeen(pairs, signed) ==
  IF pairs = <<>> THEN <<>>
  ELSE LET p == Head(pairs)
       IN  (IF p.nvalues > 0
            THEN <<Rec(p.key, IntBytes(p.nvalues) \o <<0>>)>>
            ELSE <<Rec(p.key, IntBytes(IF signed THEN p.nvalues
                                       ELSE -p.nvalues) \o <<1>>),
                   Rec(p.key, IntBytes(-p.nvalues) \o <<>>)>>)
           \o ArgsSeen(Tail(pairs), signed)

\* the KMV pairs of rank r that the step hands to the callback: those of the
\* KMV for reduce, those of the converted KV for compress
PairsReduced(r) ==
  IF last'.op = "reduce" THEN KMVContents(rk[r], last'.e)
  ELSE KMVContents(Run(rk, "MR_convert", <<last'.e>>, FALSE)[r], last'.e)

\* the step is a reduce or compress with the callback "args" that returned
ArgsStep ==
  /\ last'.op \in {"reduce", "compress"}
  /\ last'.arg = <<"args">> /\ last'.err = ""

\* C22 as stated: reduce and compress call the callback once for every KMV
\* pair, and for a block-split pair with nvalues equal to the number of
\* blocks, a NULL multivalue, and multivalue_blocks() gives that number
C22_BlockCountPassed ==
  [][ArgsStep => \A r \in Ranks :
                   last'.post[r] = ArgsSeen(PairsReduced(r), FALSE)]_vars

\* C22: reduce and compress call the callback once for every KMV pair, and
\* for a block-split pair with the nvalues of the header, which is minus the
\* number of blocks, and a NULL multivalue; multivalue_blocks() then gives
\* the number of blocks, -nvalues
C22_BlockHeaderPassed ==
  [][ArgsStep => \A r \in Ranks :
                   last'.post[r] = ArgsSeen(PairsReduced(r), TRUE)]_vars

\* a reduce whose callback got a block-split pair of three blocks
C22_Witness ==
  /\ last.op = "reduce" /\ last.arg = <<"args">> /\ last.err = ""
  /\ \E r \in Ranks : \E i \in 1..(Len(last.post[r]) - 1) :
       /\ last.post[r][i].value = IntBytes(-3) \o <<1>>
       /\ last.post[r][i + 1].value = IntBytes(3) \o <<>>

(***************************************************************************)
(* SpecSortMV: the ranks have filled the KV of engine 1 with a map; they   *)
(* convert or clone it, sort the values of the KMV pairs, and reduce.      *)
(* The callback "lens" gives one key values of one and of two bytes.       *)
(***************************************************************************)
SortMVMaps   == {2, 3, 5}
SortMVMapFns == {"pair", "same", "lens"}

InitSortMV ==
  \E n \in ProcCounts, nmap \in SortMVMaps, fn \in SortMVMapFns :
    \E o \in {Call("Outcome",
                   <<[r \in 0..(n - 1) |-> NewEngine(NewHeap(r, n), 1)], "map",
                     1, <<nmap, fn, 0>>, "MR_map",
                     <<1, nmap, fn, 0, Assign(nmap)>>, FALSE>>)} :
      /\ rk = o.rk
      /\ last = o.last
      /\ nops = 0

NextSortMV ==
  \/ Convert(1)
  \/ Clone(1)
  \/ \E g \in Garbages : SortMultivalues(1, g)
  \/ Reduce(1, "count")

SpecSortMV == InitSortMV /\ [][NextSortMV]_vars

\* the KMV pairs Q are the pairs P with the values of every pair permuted
\* into non-decreasing order
ValuesSorted(P, Q) ==
  /\ Len(Q) = Len(P)
  /\ \A i \in 1..Len(P) :
       /\ Q[i].key = P[i].key
       /\ Q[i].nvalues = P[i].nvalues
       /\ SameBag(P[i].values, Q[i].values)
       /\ NonDecreasing(Q[i].values)

\* C23: a sort_multivalues(cmp) that returns leaves on every rank a KMV
\* with the same pages and the same pairs (keys, nvalues), in which every
\* pair decodes to a permutation of its previous values, non-decreasing
\* under cmp
C23_MultivaluesSorted ==
  [][last'.op = "sort_multivalues" /\ last'.err = "" =>
       \A r \in Ranks :
         /\ rk'[r].kvs[rk'[r].mr[1].kmv].pages = rk[r].kvs[rk[r].mr[1].kmv].pages
         /\ ValuesSorted(KMVContents(rk[r], 1), KMVContents(rk'[r], 1))]_vars

\* the same for the runs in which the array order happens to hold 0..n-1
\* when qsort is called
SortedGivenIndices ==
  [][SortMultivalues(1, "iota") /\ last'.err = "" =>
       \A r \in Ranks :
         ValuesSorted(KMVContents(rk[r], 1), KMVContents(rk'[r], 1))]_vars

(***************************************************************************)
(* SpecFile: map of one file split by a separator character                *)
(***************************************************************************)
SepChar == 10
FileBytes == {0, SepChar, 97}
MaxFileLen == 6
FileMaps == 1..3
FileDeltas == 0..2

FilesOfLen(n) == [1..n -> FileBytes]

InitFile ==
  /\ \E n \in 0..MaxFileLen, nmap \in FileMaps, delta \in FileDeltas :
       \E file \in FilesOfLen(n) :
         /\ n >= nmap
         /\ rk = [file |-> file, nmap |-> nmap, delta |-> delta,
                  ntask |-> tasksperfile(n, nmap, delta), out |-> <<>>]
  /\ last = [op |-> "init"]
  /\ nops = 0

\* the next task of the file runs MapReduce::map_file_wrapper
MapFileTask ==
  /\ Len(rk.out) < rk.ntask
  /\ rk' = [rk EXCEPT !.out = Append(@,
              map_file_wrapper(rk.file, Len(rk.out), rk.ntask, SepChar,
                               rk.delta))]
  /\ last' = [op |-> "map_file"]
  /\ nops' = nops

NextFile == MapFileTask

SpecFile == InitFile /\ [][NextFile]_vars

FileDone == last.op = "map_file" /\ Len(rk.out) = rk.ntask

Boundary(i) == (i * Len(rk.file)) \div rk.ntask

\* a separator among the delta bytes that follow interior boundary i
SepWithinDelta(i) ==
  \E p \in Boundary(i) .. (Boundary(i) + rk.delta - 1) :
    p < Len(rk.file) /\ rk.file[p + 1] = SepChar

\* a separator after interior boundary i with nothing but ordinary bytes
\* between the boundary and it
SepReached(i) ==
  \E p \in Boundary(i) .. (Boundary(i) + rk.delta - 1) :
    /\ p < Len(rk.file) /\ rk.file[p + 1] = SepChar
    /\ \A q \in Boundary(i) .. (p - 1) : rk.file[q + 1] # 0

Interior == 1 .. (rk.ntask - 1)

RECURSIVE Delivered(_)
Delivered(out) ==
  IF out = <<>> THEN <<>> ELSE Head(out).str \o Delivered(Tail(out))

\* the tasks ran without error, their strings make up the file in task order,
\* and every cut is just after a separator
SplitAtSeparators ==
  /\ \A i \in 1..rk.ntask : rk.out[i].err = ""
  /\ Delivered(rk.out) = rk.file
  /\ \A i \in 1..rk.ntask : rk.out[i].strsize = Len(rk.out[i].str) + 1
  /\ \A i \in Interior :
       /\ rk.out[i].stop = rk.out[i + 1].first
       /\ rk.out[i].stop >= 1
       /\ rk.file[rk.out[i].stop] = SepChar

\* C24 as stated: whenever a separator occurs within delta bytes after every
\* interior boundary of the file, the strings delivered to the tasks make up
\* the file in task order and every cut falls just after a separator; and a
\* boundary with no separator within delta ends a task in a fatal error.
C24_FileSplit ==
  FileDone =>
    /\ (\A i \in Interior : SepWithinDelta(i)) => SplitAtSeparators
    /\ \A i \in Interior :
         ~SepWithinDelta(i) => \E t \in 1..rk.ntask : rk.out[t].err # ""

\* C24, amended: whenever every interior boundary is followed within delta
\* bytes by a separator with no zero byte between the boundary and it (a chunk
\* is searched as a 0-terminated string), the strings delivered to the tasks
\* make up the file in task order and every cut falls just after a separator;
\* and the task that ends at a boundary with no such separator ends in a
\* fatal error.
C24_SplitAtReachedSeparators ==
  FileDone =>
    /\ (\A i \in Interior : SepReached(i)) => SplitAtSeparators
    /\ \A i \in Interior : ~SepReached(i) => rk.out[i].err # ""

\* a file of two tasks split at a separator that is not at the boundary
C24_Witness ==
  /\ FileDone /\ rk.ntask = 2 /\ rk.delta = 2
  /\ \A i \in Interior : SepReached(i)
  /\ \E i \in Interior : rk.out[i].stop # Boundary(i) + 1
  /\ SplitAtSeparators

\* a task ends in a fatal error although a separator follows its boundary
\* within delta bytes
SeparatorMissed ==
  /\ FileDone
  /\ \A i \in Interior : SepWithinDelta(i)
  /\ \E t \in 1..rk.ntask : rk.out[t].err # ""

(***************************************************************************)
(* C25: identities of live containers                                      *)
(***************************************************************************)
\* C25: on every rank any two containers that are live at the same time were
\* constructed with different identities (kind, memory toggle, instance
\* number), so they name different spill files, and any two live engines have
\* different instance numbers.
C25_DistinctIdentities ==
  \A r \in DOMAIN rk :
    /\ \A a \in DOMAIN rk[r].kvs : \A b \in DOMAIN rk[r].kvs :
         a # b => rk[r].kvs[a].filename # rk[r].kvs[b].filename
    /\ \A e \in DOMAIN rk[r].mr : \A f \in DOMAIN rk[r].mr :
         e # f => rk[r].mr[e].instance # rk[r].mr[f].instance

\* the engines themselves, which are never destroyed in these runs, have
\* different instance numbers
EnginesDistinct ==
  \A r \in DOMAIN rk :
    \A e \in DOMAIN rk[r].mr : \A f \in DOMAIN rk[r].mr :
      e # f => rk[r].mr[e].instance # rk[r].mr[f].instance

(***************************************************************************)
(* C26: the value an operator returns                                      *)
(***************************************************************************)
\* the number of records engine e holds on rank r after operator op: the
\* pairs read back from its KV, or the pairs read back from its KMV
RecordsLeft(r, op, e) ==
  IF op \in KVOps THEN Len(Contents(rk[r], e))
  ELSE Len(KMVContents(rk[r], e))

RECURSIVE SumRecords(_, _, _)
SumRecords(r, op, e) ==
  IF r \notin DOMAIN rk THEN 0
  ELSE RecordsLeft(r, op, e) + SumRecords(r + 1, op, e)

Returned == last.op \in (KVOps \cup KMVOps) /\ last.err = ""

\* C26: an operator that returns, returns the sum over all ranks of the
\* number of records in the container it leaves: KV pairs after a
\* KV-producing operator, KMV pairs after convert, collate, clone, collapse,
\* scrunch and sort_multivalues.
C26_ReturnsGroupTotal ==
  Returned => last.ret = SumRecords(0, last.op, last.e)

\* the early return of aggregate on one rank, with pairs in the KV
C26_WitnessAggregate ==
  /\ Returned /\ last.op = "aggregate" /\ Cardinality(DOMAIN rk) = 1
  /\ last.ret > 0 /\ last.ret = SumRecords(0, last.op, last.e)

\* the early return of gather to all ranks of a group of several, more than
\* one of which holds pairs
C26_Witness ==
  /\ Returned /\ last.op = "gather" /\ Cardinality(DOMAIN rk) > 1
  /\ last.arg = <<Cardinality(DOMAIN rk)>>
  /\ \A r \in DOMAIN rk : RecordsLeft(r, last.op, last.e) > 0
  /\ last.ret = SumRecords(0, last.op, last.e)

(***************************************************************************)
(* C27: the master/worker exchange of map (SpecMap, SpecMapLive)           *)
(***************************************************************************)
MasterWorker == rk[0].mapstyle = 2 /\ rk[0].nprocs > 1

Workers == Ranks \ {0}

\* the number of task indices among the messages ms
RECURSIVE TasksIn(_)
TasksIn(ms) ==
  IF ms = <<>> THEN 0
  ELSE (IF Head(ms) >= 0 THEN 1 ELSE 0) + TasksIn(Tail(ms))

RECURSIVE Dispatched(_)
Dispatched(w) ==
  IF w \notin Workers THEN 0 ELSE TasksIn(rk[0].sent[w]) + Dispatched(w + 1)

\* what the master has done so far: no task of its own, the task indices
\* 0..itask-1 sent once each, at most one done flag per worker and nothing
\* after it, no more completions taken than tasks sent
MasterOrderly ==
  /\ rk[0].called = <<>>
  /\ Dispatched(1) = rk[0].itask /\ rk[0].itask <= rk[0].nmap
  /\ \A i \in 0..(rk[0].itask - 1) :
       \E w \in Workers :
         /\ CountIn(rk[0].sent[w], i) = 1
         /\ \A v \in Workers \ {w} : CountIn(rk[0].sent[v], i) = 0
  /\ \A w \in Workers :
       /\ CountIn(rk[0].sent[w], DoneFlag) <= 1
       /\ \A k \in 1..(Len(rk[0].sent[w]) - 1) : rk[0].sent[w][k] # DoneFlag
  /\ rk[0].nrecv <= rk[0].itask
  /\ rk[0].pc # "start" =>
       \A w \in Workers :
         w > rk[0].nmap => rk[0].sent[w] = <<DoneFlag>>
  /\ rk[0].pc = "done" =>
       /\ \A w \in Workers : CountIn(rk[0].sent[w], DoneFlag) = 1
       /\ rk[0].nrecv = Dispatched(1) /\ rk[0].itask = rk[0].nmap

\* a worker has run what it was sent, and has left its loop only on the
\* done flag
WorkersOrderly ==
  \A w \in Workers :
    /\ rk[w].pc = "done" =>
         /\ last.to[w] = <<>> /\ last.from[w] = <<>>
         /\ rk[0].sent[w] = rk[w].called \o <<DoneFlag>>
    /\ rk[w].pc # "done" =>
         \E k \in 0..Len(rk[0].sent[w]) :
           /\ rk[w].called = SubSeq(rk[0].sent[w], 1, k)
           /\ last.to[w] = SubSeq(rk[0].sent[w], k + 1, Len(rk[0].sent[w]))

\* every rank has left map and no message is left over
AllLeft ==
  /\ \A r \in Ranks : rk[r].pc = "done"
  /\ \A w \in Workers : last.to[w] = <<>> /\ last.from[w] = <<>>

\* C27: in a master/worker map (mapstyle 2, more than one rank) rank 0 runs
\* no task, sends every task index to exactly one worker and exactly one done
\* flag to every worker (at once to the workers beyond the number of tasks),
\* takes one completion per task sent and leaves its loop only when all
\* workers were sent the done flag; a worker leaves on the done flag only;
\* and with messages delivered and ranks running, every rank leaves map with
\* no message left over.
C27_MasterWorkerTerminates ==
  /\ [](MasterWorker => (MasterOrderly /\ WorkersOrderly))
  /\ MasterWorker => <>[]AllLeft

\* two workers and one task: worker 2 gets the done flag at once, worker 1
\* runs the task, and all ranks have left
C27_Witness ==
  /\ MasterWorker /\ AllLeft
  /\ Cardinality(Ranks) = 3 /\ rk[0].nmap = 1
  /\ rk[0].sent[2] = <<DoneFlag>> /\ rk[0].sent[1] = <<0, DoneFlag>>
  /\ rk[0].nrecv = 1

(***************************************************************************)
(* SpecShake: the messages of gather(numprocs).  Every rank is a process   *)
(* at a position pc of MapReduce::gather; last.chan[<<s, d, t>>] is the    *)
(* queue of the messages with tag t sent by rank s to rank d and not yet   *)
(* received.  A page is named <<r, k>>: page k of the KV of rank r.  A     *)
(* send is complete at once (sync = FALSE) or when the message has been    *)
(* received (sync = TRUE); MPI allows both.  added and log are history:    *)
(* the pages a rank has added to its KV and the messages it has sent.      *)
(***************************************************************************)
ShakeProcs == 2..4        \* sizes of the group
ShakePages == 0..2        \* pages of the KV of a sending rank

NoRequest == [st |-> "none", src |-> 0, data |-> <<>>]

InitShake ==
  \E n \in ShakeProcs, sync \in BOOLEAN :
    \E numprocs \in 1..n, np \in [0..(n - 1) -> ShakePages] :
      /\ \A r \in 0..(n - 1) : r < numprocs => np[r] = 0
      /\ rk = [r \in 0..(n - 1) |->
                 [me |-> r, nprocs |-> n, numprocs |-> numprocs,
                  sync |-> sync, pc |-> "start", iproc |-> 0, ipage |-> 0,
                  npage |-> 0, pages |-> np[r], request |-> NoRequest,
                  added |-> <<>>, log |-> <<>>]]
      /\ last = [op |-> "gather",
                 chan |-> [c \in (0..(n - 1)) \X (0..(n - 1)) \X {0, 1}
                             |-> <<>>]]
      /\ nops = 0

\* MPI_Send(..,dest,tag,comm) by rank me
Send(chan, me, dest, tag, msg) ==
  [chan EXCEPT ![<<me, dest, tag>>] = Append(@, msg)]

\* the sends of rank me are complete
SendsComplete(me) ==
  rk[me].sync =>
    \A d \in Ranks, t \in {0, 1} : last.chan[<<me, d, t>>] = <<>>

\* a message with tag 0 from rank src is there for MPI_Recv by rank me
Arrived(me, src) == last.chan[<<src, me, 0>>] # <<>>

MsgTaken(me, src) == [last EXCEPT !.chan[<<src, me, 0>>] = Tail(@)]

\* if (nprocs == 1 || numprocs == nprocs) : nothing is exchanged
ShakeNone(me) ==
  /\ rk[me].pc = "start"
  /\ rk[me].numprocs = rk[me].nprocs
  /\ rk' = [rk EXCEPT ![me].pc = "allreduce"]
  /\ nops' = nops + 1
  /\ UNCHANGED last

\* if (me < numprocs) { kv->append(); buf = memavail; iproc = me+numprocs
LoStart(me) ==
  /\ rk[me].pc = "start"
  /\ rk[me].numprocs # rk[me].nprocs /\ me < rk[me].numprocs
  /\ rk' = [rk EXCEPT ![me].pc = "proc", ![me].iproc = me + rk[me].numprocs]
  /\ nops' = nops + 1
  /\ UNCHANGED last

\* iproc < nprocs : MPI_Send(&flag,0,MPI_INT,iproc,0,comm), else kv->complete()
LoNextProc(me) ==
  /\ rk[me].pc = "proc"
  /\ IF rk[me].iproc < rk[me].nprocs
     THEN /\ rk' = [rk EXCEPT ![me].pc = "recv_npage",
                              ![me].log = Append(@, <<rk[me].iproc, "go">>)]
          /\ last' = [last EXCEPT
                        !.chan = Send(@, me, rk[me].iproc, 0, <<"go">>)]
     ELSE /\ rk' = [rk EXCEPT ![me].pc = "allreduce"]
          /\ UNCHANGED last
  /\ nops' = nops + 1

\* MPI_Recv(&npage,1,MPI_INT,iproc,0,comm,&status); ipage = 0
LoRecvNpage(me) ==
  /\ rk[me].pc = "recv_npage"
  /\ SendsComplete(me)
  /\ Arrived(me, rk[me].iproc)
  /\ rk' = [rk EXCEPT ![me].pc = "page", ![me].ipage = 0,
                      ![me].npage = Head(last.chan[<<rk[me].iproc, me, 0>>])[2]]
  /\ last' = MsgTaken(me, rk[me].iproc)
  /\ nops' = nops + 1

\* a receiver that sends its go-ahead without posting the receive
LoNextPage_unposted(me) ==
  /\ rk[me].pc = "page" /\ me < rk[me].numprocs
  /\ IF rk[me].ipage < rk[me].npage
     THEN /\ rk' = [rk EXCEPT ![me].pc = "recv_sizes",
                              ![me].log = Append(@, <<rk[me].iproc, "go">>)]
          /\ last' = [last EXCEPT
                        !.chan = Send(@, me, rk[me].iproc, 0, <<"go">>)]
     ELSE /\ rk' = [rk EXCEPT ![me].pc = "proc",
                              ![me].iproc = @ + rk[me].numprocs]
          /\ UNCHANGED last
  /\ nops' = nops + 1

\* ipage < npage : MPI_Irecv(buf,..,iproc,1,comm,&request);
\* MPI_Send(&flag,0,MPI_INT,iproc,0,comm); else iproc += numprocs
LoNextPage(me) ==
  /\ rk[me].pc = "page" /\ me < rk[me].numprocs
  /\ IF rk[me].ipage < rk[me].npage
     THEN /\ rk' = [rk EXCEPT ![me].pc = "recv_sizes",
                              ![me].request = [st |-> "posted",
                                               src |-> rk[me].iproc,
                                               data |-> <<>>],
                              ![me].log = Append(@, <<rk[me].iproc, "go">>)]
          /\ last' = [last EXCEPT
                        !.chan = Send(@, me, rk[me].iproc, 0, <<"go">>)]
     ELSE /\ rk' = [rk EXCEPT ![me].pc = "proc",
                              ![me].iproc = @ + rk[me].numprocs]
          /\ UNCHANGED last
  /\ nops' = nops + 1

\* MPI_Recv(sizes,4,MPI_INT,iproc,0,comm,&status)
LoRecvSizes(me) ==
  /\ rk[me].pc = "recv_sizes"
  /\ SendsComplete(me)
  /\ Arrived(me, rk[me].iproc)
  /\ rk' = [rk EXCEPT ![me].pc = "wait"]
  /\ last' = MsgTaken(me, rk[me].iproc)
  /\ nops' = nops + 1

\* the message with tag 1 meets the receive that MPI_Irecv posted
Match(me) ==
  /\ rk[me].request.st = "posted"
  /\ last.chan[<<rk[me].request.src, me, 1>>] # <<>>
  /\ rk' = [rk EXCEPT ![me].request =
                        [@ EXCEPT !.st = "complete",
                                  !.data = Head(last.chan[<<rk[me].request.src, me, 1>>])]]
  /\ last' = [last EXCEPT !.chan[<<rk[me].request.src, me, 1>>] = Tail(@)]
  /\ nops' = nops + 1

\* MPI_Wait(&request,&status); kv->add(sizes[0],buf,sizes[1],sizes[2],sizes[3])
LoWaitAdd(me) ==
  /\ rk[me].pc = "wait"
  /\ rk[me].request.st = "complete"
  /\ rk' = [rk EXCEPT ![me].pc = "page", ![me].ipage = @ + 1,
                      ![me].added = Append(@, rk[me].request.data),
                      ![me].request = NoRequest]
  /\ nops' = nops + 1
  /\ UNCHANGED last

\* else { iproc = me % numprocs; npage = kv->request_info(&buf);
HiStart(me) ==
  /\ rk[me].pc = "start"
  /\ rk[me].numprocs # rk[me].nprocs /\ me >= rk[me].numprocs
  /\ rk' = [rk EXCEPT ![me].pc = "recv_flag",
                      ![me].iproc = me % rk[me].numprocs,
                      ![me].npage = rk[me].pages]
  /\ nops' = nops + 1
  /\ UNCHANGED last

\* MPI_Recv(&flag,0,MPI_INT,iproc,0,comm,&status);
\* MPI_Send(&npage,1,MPI_INT,iproc,0,comm); ipage = 0
HiSendNpage(me) ==
  /\ rk[me].pc = "recv_flag"
  /\ Arrived(me, rk[me].iproc)
  /\ rk' = [rk EXCEPT ![me].pc = "page", ![me].ipage = 0,
                      ![me].log = Append(@, <<"npage", rk[me].npage>>)]
  /\ last' = [MsgTaken(me, rk[me].iproc) EXCEPT
                !.chan = Send(@, me, rk[me].iproc, 0,
                              <<"npage", rk[me].npage>>)]
  /\ nops' = nops + 1

\* ipage < npage : sizes[0] = kv->request_page(ipage,..); else
\* delete kv; kv = new KeyValue(..); memswap(); kv->complete()
HiNextPage(me) ==
  /\ rk[me].pc = "page" /\ me >= rk[me].numprocs
  /\ SendsComplete(me)
  /\ rk' = [rk EXCEPT ![me].pc = IF rk[me].ipage < rk[me].npage
                                 THEN "recv_go" ELSE "allreduce"]
  /\ nops' = nops + 1
  /\ UNCHANGED last

\* MPI_Recv(&flag,0,MPI_INT,iproc,0,comm,&status);
\* MPI_Send(sizes,4,MPI_INT,iproc,0,comm)
HiSendSizes(me) ==
  /\ rk[me].pc = "recv_go"
  /\ Arrived(me, rk[me].iproc)
  /\ rk' = [rk EXCEPT ![me].pc = "send_buf",
                      ![me].log = Append(@, <<"sizes", me, rk[me].ipage>>)]
  /\ last' = [MsgTaken(me, rk[me].iproc) EXCEPT
                !.chan = Send(@, me, rk[me].iproc, 0,
                              <<"sizes", me, rk[me].ipage>>)]
  /\ nops' = nops + 1

\* MPI_Send(buf,sizes[3],MPI_BYTE,iproc,1,comm); ipage++
HiSendBuf(me) ==
  /\ rk[me].pc = "send_buf"
  /\ SendsComplete(me)
  /\ rk' = [rk EXCEPT ![me].pc = "page", ![me].ipage = @ + 1,
                      ![me].log = Append(@, <<"page", me, rk[me].ipage>>)]
  /\ last' = [last EXCEPT
                !.chan = Send(@, me, rk[me].iproc, 1,
                              <<"page", me, rk[me].ipage>>)]
  /\ nops' = nops + 1

\* MPI_Allreduce(&kv->nkv,&nkeyall,1,MPI_INT,MPI_SUM,comm) once every rank
\* has entered it
ShakeAllreduce ==
  /\ \A r \in Ranks : rk[r].pc = "allreduce"
  /\ rk' = [r \in Ranks |-> [rk[r] EXCEPT !.pc = "done"]]
  /\ nops' = nops + 1
  /\ UNCHANGED last

NextShake ==
  \/ \E me \in Ranks : ShakeNone(me)
  \/ \E me \in Ranks : LoStart(me)
  \/ \E me \in Ranks : LoNextProc(me)
  \/ \E me \in Ranks : LoRecvNpage(me)
  \/ \E me \in Ranks : LoNextPage(me)
  \/ \E me \in Ranks : LoRecvSizes(me)
  \/ \E me \in Ranks : Match(me)
  \/ \E me \in Ranks : LoWaitAdd(me)
  \/ \E me \in Ranks : HiStart(me)
  \/ \E me \in Ranks : HiSendNpage(me)
  \/ \E me \in Ranks : HiNextPage(me)
  \/ \E me \in Ranks : HiSendSizes(me)
  \/ \E me \in Ranks : HiSendBuf(me)
  \/ ShakeAllreduce

SpecShake == InitShake /\ [][NextShake]_vars

\* every rank is a running process and MPI delivers what was sent
SpecShakeLive == SpecShake /\ WF_vars(NextShake)

Exchanging == rk[0].numprocs < rk[0].nprocs

LoRanks == {r \in Ranks : r < rk[0].numprocs}
HiRanks == Ranks \ LoRanks

\* the names of pages from..(n-1) of rank r
RECURSIVE PagesFrom(_, _, _)
PagesFrom(r, from, n) ==
  IF from >= n THEN <<>>
  ELSE <<<<"page", r, from>>>> \o PagesFrom(r, from + 1, n)

\* the pages of the senders lo+numprocs, lo+2*numprocs, .. below rank upto, in
\* the order of the senders, page by page
RECURSIVE PagesBelow(_, _)
PagesBelow(r, upto) ==
  IF r >= upto \/ r \notin Ranks THEN <<>>
  ELSE PagesFrom(r, 0, rk[r].pages) \o PagesBelow(r + rk[0].numprocs, upto)

\* the messages a sender sends in all: its page count, then sizes and page
\* for every page in page order
RECURSIVE SenderLog(_, _, _)
SenderLog(r, from, n) ==
  IF from >= n THEN <<>>
  ELSE <<<<"sizes", r, from>>, <<"page", r, from>>>>
       \o SenderLog(r, from + 1, n)

\* rank s sends to rank d only if one is a sender and the other the rank
\* below numprocs with the sender's number modulo numprocs
Partners(s, d) ==
  \/ s \in HiRanks /\ d = s % rk[0].numprocs
  \/ d \in HiRanks /\ s = d % rk[0].numprocs

OnlyPartnersTalk ==
  \A s \in Ranks, d \in Ranks, t \in {0, 1} :
    last.chan[<<s, d, t>>] # <<>> => Partners(s, d)

\* a page on its way finds the receive posted for it: the receiver is at
\* this sender and this page, and has sent its go-ahead after the MPI_Irecv
PagePosted ==
  \A s \in HiRanks :
    LET d == s % rk[0].numprocs
        q == last.chan[<<s, d, 1>>]
    IN  q # <<>> =>
          /\ q = <<<<"page", s, rk[d].ipage>>>>
          /\ rk[d].request.st = "posted" /\ rk[d].request.src = s
          /\ rk[d].iproc = s
          /\ rk[d].pc \in {"recv_sizes", "wait"}

\* a sender has sent a prefix of its messages, in order
SendersInOrder ==
  \A s \in HiRanks :
    LET all == <<<<"npage", rk[s].pages>>>> \o SenderLog(s, 0, rk[s].pages)
    IN  /\ Len(rk[s].log) <= Len(all)
        /\ rk[s].log = SubSeq(all, 1, Len(rk[s].log))
        /\ rk[s].pc \in {"allreduce", "done"} => rk[s].log = all

\* a receiver is at one sender at a time and has added all pages of the
\* senders before it and the pages before ipage of this one, in order, when
\* it asks for the next
ServedInOrder ==
  \A d \in LoRanks :
    /\ rk[d].pc \in {"recv_npage", "page", "recv_sizes", "wait"} =>
         /\ rk[d].iproc \in HiRanks /\ rk[d].iproc % rk[0].numprocs = d
         /\ rk[d].added = PagesBelow(d + rk[0].numprocs, rk[d].iproc)
                            \o (IF rk[d].pc = "recv_npage" THEN <<>>
                                ELSE PagesFrom(rk[d].iproc, 0, rk[d].ipage))
         /\ Len(rk[d].log) =
              Len(rk[d].added) + (rk[d].iproc - d) \div rk[0].numprocs
                + (IF rk[d].pc \in {"recv_sizes", "wait"} THEN 1 ELSE 0)
    /\ rk[d].pc \in {"allreduce", "done"} =>
         rk[d].added = PagesBelow(d + rk[0].numprocs, rk[0].nprocs)

\* every rank has left gather and no message is left over
AllGathered ==
  /\ \A r \in Ranks : rk[r].pc = "done"
  /\ \A s \in Ranks, d \in Ranks, t \in {0, 1} : last.chan[<<s, d, t>>] = <<>>

\* C28: in gather(numprocs) messages go only between a rank r >= numprocs and
\* rank r mod numprocs; such a rank sends its page count and then every page
\* once, in page order; a page is on its way only while the receiver has the
\* receive for it posted and its go-ahead sent; a rank below numprocs serves
\* its senders one after another and has added every page it received before
\* it asks for the next; and with messages delivered and ranks running, all
\* ranks pass the final collective sum with no message left over.
C28_HandshakeOrdered ==
  /\ [](Exchanging =>
          (OnlyPartnersTalk /\ PagePosted /\ SendersInOrder /\ ServedInOrder))
  /\ <>[]AllGathered

\* four ranks gather to one: rank 0 has served ranks 1, 2 and 3, two of
\* which had two pages, with sends that wait for their receive
C28_Witness ==
  /\ AllGathered /\ Cardinality(Ranks) = 4 /\ rk[0].numprocs = 1
  /\ rk[0].sync
  /\ rk[1].pages = 2 /\ rk[2].pages = 0 /\ rk[3].pages = 2
  /\ rk[0].added = <<<<"page", 1, 0>>, <<"page", 1, 1>>,
                     <<"page", 3, 0>>, <<"page", 3, 1>>>>

(***************************************************************************)
(* SpecRounds: the collective steps of aggregate.  Every rank is a process *)
(* at a position pc of MapReduce::aggregate.  A page of the KV of a rank   *)
(* is the list of the destinations of its pairs.  last.coll[r] is the      *)
(* collective rank r is in, with what it brings, or <<>>; a collective     *)
(* ends for all ranks at once when all are in the same one.  log and added *)
(* are history: the collectives a rank has passed and the numbers of pairs *)
(* it added to kvnew.                                                      *)
(***************************************************************************)
RoundProcs == 1..3        \* sizes of the group
RoundPages == 0..2        \* pages of the KV of a rank
PagePairs  == 2           \* pairs on a page

\* page k of rank r: PagePairs pairs for ranks that follow one another
PageOf(r, k, n) == [i \in 1..PagePairs |-> (r + k + i) % n]

InitRounds ==
  \E n \in RoundProcs : \E np \in [0..(n - 1) -> RoundPages] :
    /\ rk = [r \in 0..(n - 1) |->
               [me |-> r, nprocs |-> n, pc |-> "start",
                pages |-> [k \in 1..np[r] |-> PageOf(r, k, n)],
                npage_send |-> 0, maxpage |-> 0, ipage |-> 0,
                nkey_send |-> 0, proclist |-> <<>>, nkey_recv |-> 0,
                log |-> <<>>, added |-> <<>>, ret |-> 0]]
    /\ last = [op |-> "aggregate", coll |-> [r \in 0..(n - 1) |-> <<>>]]
    /\ nops = 0

\* rank me enters the collective name with what it brings
Enter(me, name, brings) == [last EXCEPT !.coll[me] = <<name, brings>>]

\* if (nprocs == 1) return kv->nkv;
AggAlone(me) ==
  /\ rk[me].pc = "start" /\ rk[me].nprocs = 1
  /\ rk' = [rk EXCEPT ![me].pc = "done",
                      ![me].ret = Len(rk[me].pages) * PagePairs]
  /\ nops' = nops + 1
  /\ UNCHANGED last

\* kvnew = new KeyValue(..); npage_send = kv->request_info(&page_send);
\* MPI_Allreduce(&npage_send,&maxpage,1,MPI_INT,MPI_MAX,comm)
AggStart(me) ==
  /\ rk[me].pc = "start" /\ rk[me].nprocs # 1
  /\ rk' = [rk EXCEPT ![me].pc = "in", ![me].npage_send = Len(rk[me].pages)]
  /\ last' = Enter(me, "max", Len(rk[me].pages))
  /\ nops' = nops + 1

\* a rank that goes through its own pages only
AggLoad_own(me) ==
  /\ rk[me].pc = "loop"
  /\ IF rk[me].ipage < rk[me].npage_send
     THEN /\ rk' = [rk EXCEPT ![me].pc = "in",
                              ![me].nkey_send = PagePairs,
                              ![me].proclist = rk[me].pages[rk[me].ipage + 1]]
          /\ last' = Enter(me, "pattern", rk[me].pages[rk[me].ipage + 1])
     ELSE /\ rk' = [rk EXCEPT ![me].pc = "in"]
          /\ last' = Enter(me, "sum", SumSeq(rk[me].added))
  /\ nops' = nops + 1

\* for (ipage = 0; ipage < maxpage; ipage++) : nkey_send = request_page(ipage)
\* or 0, the destinations of the pairs, irregular->pattern(nkey_send,proclist);
\* after the loop delete kv; kv = kvnew; kv->complete(); MPI_Allreduce(..SUM..)
AggLoad(me) ==
  /\ rk[me].pc = "loop"
  /\ IF rk[me].ipage < rk[me].maxpage
     THEN LET proclist == IF rk[me].ipage < rk[me].npage_send
                          THEN rk[me].pages[rk[me].ipage + 1] ELSE <<>>
          IN  /\ rk' = [rk EXCEPT ![me].pc = "in",
                                  ![me].nkey_send = Len(proclist),
                                  ![me].proclist = proclist]
              /\ last' = Enter(me, "pattern", proclist)
     ELSE /\ rk' = [rk EXCEPT ![me].pc = "in"]
          /\ last' = Enter(me, "sum", SumSeq(rk[me].added))
  /\ nops' = nops + 1

\* nkey_recv = irregular->size(sizeof(int)) / sizeof(int);
\* irregular->exchange((char *) sendsizes,(char *) recvsizes)
AggSizes(me) ==
  /\ rk[me].pc = "pattern"
  /\ rk' = [rk EXCEPT ![me].pc = "in"]
  /\ last' = Enter(me, "sizes", rk[me].proclist)
  /\ nops' = nops + 1

\* nbytes = irregular->size(sendsizes,NULL,recvsizes); the choice of
\* page_recv; irregular->exchange(page_send,page_recv)
AggData(me) ==
  /\ rk[me].pc = "sizes"
  /\ rk' = [rk EXCEPT ![me].pc = "in"]
  /\ last' = Enter(me, "data", rk[me].proclist)
  /\ nops' = nops + 1

\* kvnew->add(nkey_recv,page_recv); ipage++
AggAdd(me) ==
  /\ rk[me].pc = "data"
  /\ rk' = [rk EXCEPT ![me].pc = "loop", ![me].ipage = @ + 1,
                      ![me].added = Append(@, rk[me].nkey_recv)]
  /\ nops' = nops + 1
  /\ UNCHANGED last

\* the number of entries of the lists brought by ranks r.. that name rank d
RECURSIVE PairsFor(_, _)
PairsFor(d, r) ==
  IF r \notin Ranks THEN 0
  ELSE CountIn(last.coll[r][2], d) + PairsFor(d, r + 1)

RECURSIVE SumBrought(_)
SumBrought(r) ==
  IF r \notin Ranks THEN 0 ELSE last.coll[r][2] + SumBrought(r + 1)

\* all ranks are in the same collective: it ends on every rank
Collective ==
  /\ \A r \in Ranks : last.coll[r] # <<>> /\ last.coll[r][1] = last.coll[0][1]
  /\ LET name == last.coll[0][1]
     IN  rk' = [r \in Ranks |->
                  [rk[r] EXCEPT
                     !.log = Append(@, name),
                     !.pc = CASE name = "max" -> "loop"
                              [] name = "sum" -> "done"
                              [] OTHER -> name,
                     !.maxpage = IF name = "max"
                                 THEN MaxOf([q \in 1..Cardinality(Ranks) |->
                                               last.coll[q - 1][2]])
                                 ELSE @,
                     !.nkey_recv = IF name = "pattern" THEN PairsFor(r, 0)
                                   ELSE @,
                     !.ret = IF name = "sum" THEN SumBrought(0) ELSE @]]
  /\ last' = [last EXCEPT !.coll = [r \in Ranks |-> <<>>]]
  /\ nops' = nops + 1

NextRounds ==
  \/ \E me \in Ranks : AggAlone(me)
  \/ \E me \in Ranks : AggStart(me)
  \/ \E me \in Ranks : AggLoad(me)
  \/ \E me \in Ranks : AggSizes(me)
  \/ \E me \in Ranks : AggData(me)
  \/ \E me \in Ranks : AggAdd(me)
  \/ Collective

SpecRounds == InitRounds /\ [][NextRounds]_vars

\* every rank is a running process
SpecRoundsLive == SpecRounds /\ WF_vars(NextRounds)

\* the most pages any rank has
MostPages == MaxOf([q \in 1..Cardinality(Ranks) |-> Len(rk[q - 1].pages)])

\* the collectives of aggregate with n rounds
RECURSIVE RoundSteps(_)
RoundSteps(n) ==
  IF n = 0 THEN <<>> ELSE <<"pattern", "sizes", "data">> \o RoundSteps(n - 1)

AllSteps == <<"max">> \o RoundSteps(MostPages) \o <<"sum">>

\* the ranks have passed the same collectives, a prefix of those of MostPages
\* rounds, and those that wait are in the same collective
InStep ==
  /\ \A r \in Ranks :
       /\ rk[r].log = rk[0].log
       /\ Len(rk[r].log) <= Len(AllSteps)
       /\ rk[r].log = SubSeq(AllSteps, 1, Len(rk[r].log))
  /\ \A r \in Ranks, s \in Ranks :
       (last.coll[r] # <<>> /\ last.coll[s] # <<>>) =>
         (last.coll[r][1] = last.coll[s][1] /\ rk[r].ipage = rk[s].ipage)

\* a rank that is past its own pages goes on with nothing to send
TrailingEmpty ==
  \A r \in Ranks :
    (last.coll[r] # <<>> /\ last.coll[r][1] \in {"pattern", "sizes", "data"}
       /\ rk[r].ipage >= Len(rk[r].pages)) =>
      (rk[r].nkey_send = 0 /\ last.coll[r][2] = <<>>)

\* every rank has left aggregate after MostPages rounds
RoundsDone ==
  \A r \in Ranks :
    /\ rk[r].pc = "done" /\ last.coll[r] = <<>>
    /\ rk[r].ipage = MostPages /\ rk[r].log = AllSteps

\* C29: in aggregate on more than one rank all ranks pass the same sequence
\* of collective steps, round by round; a rank with fewer pages than another
\* is in the trailing rounds with no pair to send; and every rank leaves
\* aggregate, after as many rounds as the largest number of pages of a rank.
C29_SameRounds ==
  /\ [](Cardinality(Ranks) > 1 => (InStep /\ TrailingEmpty))
  /\ Cardinality(Ranks) > 1 => <>[]RoundsDone

\* three ranks with 0, 1 and 2 pages have all made two rounds
C29_Witness ==
  /\ Cardinality(Ranks) = 3 /\ RoundsDone
  /\ Len(rk[0].pages) = 0 /\ Len(rk[1].pages) = 1 /\ Len(rk[2].pages) = 2
  /\ rk[0].ipage = 2 /\ Len(rk[0].added) = 2

(***************************************************************************)
(* C30: the add of a buffer of packed pairs and the add pair by pair       *)
(***************************************************************************)
\* kv->add(key,keybytes,value,valuebytes) for every pair of recs, in order
RECURSIVE AddOneByOne(_, _)
AddOneByOne(c, recs) ==
  IF recs = <<>> THEN c
  ELSE AddOneByOne(add_pair(c, Head(recs).keybytes, Head(recs).valuebytes,
                            c.kalign, c.valign, c.talign),
                   Tail(recs))

\* C30: the add of a buffer of n packed pairs leaves the container as the
\* single add of the n pairs, one after another, would leave it: the same
\* alignsize and every pair, key and value at the same place of the page.
C30_ChunkedIsSingle ==
  [][last'.op = "add_buf" =>
       rk'[0] = AddOneByOne(rk[0], rk[0].other.recs)]_vars

\* the same for alignments up to the unit the slab is aligned to
ChunkedIsSingleUpToUnit ==
  [][(last'.op = "add_buf" /\ rk[0].kalign <= ALIGNFILE
        /\ rk[0].valign <= ALIGNFILE) =>
       rk'[0] = AddOneByOne(rk[0], rk[0].other.recs)]_vars

\* the page loop of KeyValue::add(KeyValue *kv) with the pair-by-pair add for
\* every page, whatever the alignments
RECURSIVE add_kv_single(_, _, _, _, _)
add_kv_single(H, id, other, ipage, npage_other) ==
  IF ~OK(H) \/ ipage >= npage_other THEN H
  ELSE LET r  == Call("KeyValue_request_page", <<H, other, ipage>>)
           ot == r.H.kvs[other]
       IN  add_kv_single(Call("KeyValue_add_aligned",
                              <<r.H, id, r.nkey, r.H.mem[ot.page],
                                ot.kalign, ot.valign>>),
                         id, other, ipage + 1, npage_other)

\* on pages as byte offsets (SpecKV): kv->add(other) with the alignments of
\* both sides equal leaves the same page list, counters, page bytes and file
\* as the pair-by-pair add of the pages of the other, or fails as it does
ChunkedIsSingleBytes ==
  [][(last'.tried = "add_kv" /\ rk[0].kvs[1].kalign = rk[0].kvs[2].kalign
        /\ rk[0].kvs[1].valign = rk[0].kvs[2].valign) =>
       LET S == add_kv_single(rk[0], 1, 2, 0, rk[0].kvs[2].npage)
       IN  /\ OK(S) = OK(rk'[0])
           /\ OK(S) => /\ S.kvs[1] = rk'[0].kvs[1]
                       /\ S.fs = rk'[0].fs
                       /\ SubSeq(S.mem[S.kvs[1].page], 1, S.kvs[1].alignsize)
                            = SubSeq(rk'[0].mem[S.kvs[1].page], 1,
                                     S.kvs[1].alignsize)]_vars

\* an add of a several-page container to a container with pairs, by chunks
ChunkedSpilled ==
  /\ last.op = "add_kv" /\ rk[0].kvs[2].kalign = 4
  /\ rk[0].kvs[2].npage > 1 /\ rk[0].kvs[1].npage > 2

(***************************************************************************)
(* Progress of the adds (keyvalue.cpp:235-276, 388-464)                    *)
(***************************************************************************)
\* the buffers handed to the chunked add: the page of a container of an
\* engine with the larger memsize, packed with three pairs that each fit a
\* page of container 1
ChunkInputs == [1..3 -> {R8, R12, R16}]

InitChunk ==
  \E inp \in ChunkInputs :
    LET H0 == [EmptyHeap EXCEPT !.mem = (<<0, 1>> :> Zeros(MemQuarter(MemSize))) @@ @]
        H1 == PutKV(H0, 1,
                    KeyValue_new(<<0, 0>>, MemQuarter(1), ALIGNKV, ALIGNKV,
                                 KVFile(0, 1)))
        H2 == PutKV(H1, 2,
                    KeyValue_new(<<0, 1>>, MemQuarter(MemSize), ALIGNKV, ALIGNKV,
                                 KVFile(1, 1)))
        H3 == Call("KeyValue_complete", <<Call("add_each", <<H2, 2, inp>>), 2>>)
    IN  /\ rk = [r \in {0} |-> H3]
        /\ last = [op |-> "new", id |-> 0, out |-> <<>>,
                   log |-> <<<<>>, inp>>, phase |-> "open", nadds |-> 0,
                   ncompl |-> 0, tried |-> "new"]
        /\ nops = 0

NextChunk ==
  \/ \E rec \in Recs : KVAdd(rec)
  \/ KVAddKV
  \/ KVComplete
  \/ KVAppend
  \/ KVIterate

SpecChunk == InitChunk /\ [][NextChunk]_vars

\* the pages of container id that were written to its file by an add: all of
\* its npage pages while it is being filled, all but the last one (written by
\* complete) once it is completed
SpilledByAdd(id) ==
  LET kv == rk[0].kvs[id]
  IN  IF id = 1 /\ last.phase = "open" THEN 1..kv.npage ELSE 1..(kv.npage - 1)

\* the number of pairs container 1 holds while it is being filled
PairsHeld == PageSum(rk[0].kvs[1], "nkey") + rk[0].kvs[1].nkey

\* C31: an add that ends without an error has consumed every pair handed to
\* it (the container holds as many pairs as were added, the chunked add
\* included), and every page an add wrote to the file holds at least one pair
C31_AddsProgress ==
  OK(rk[0]) =>
    /\ \A id \in {1, 2} : \A i \in SpilledByAdd(id) : rk[0].kvs[id].pages[i].nkey >= 1
    /\ last.phase = "open" => PairsHeld = Len(last.log[1])

\* a chunked add of a three-pair buffer to a page that holds a pair: the page
\* is written as it is, then a page with the two pairs that fit
C31_Witness ==
  /\ last.op = "add_kv"
  /\ last.log[1] = <<R12, R8, R8, R12>>
  /\ rk[0].kvs[2].npage = 1
  /\ rk[0].kvs[1].npage = 2
  /\ rk[0].kvs[1].pages[2].nkey = 2
  /\ rk[0].kvs[1].nkey = 1

\* the same pairs read back after complete
C31_WitnessRead ==
  /\ last.op = "iterate"
  /\ last.out = <<R12, R8, R8, R12>>
  /\ rk[0].kvs[1].npage = 3

(***************************************************************************)
(* The page loop of reduce and compress (mapreduce.cpp:580-620, 1365-1405) *)
(* SpecVisit: as SpecReduce, with maps that give KMVs of pairs in pages,   *)
(* of block-split pairs, and of both.                                      *)
(***************************************************************************)
VisitMaps == {5, 7, 12}   \* nmap of the map call

InitVisit ==
  \E n \in ProcCounts, nmap \in VisitMaps, fn \in ReduceMapFns :
    \E o \in {Call("Outcome",
                   <<[r \in 0..(n - 1) |-> NewEngine(NewHeap(r, n), 1)], "map",
                     1, <<nmap, fn, 0>>, "MR_map",
                     <<1, nmap, fn, 0, Assign(nmap)>>, FALSE>>)} :
      /\ rk = o.rk
      /\ last = o.last
      /\ nops = 0

SpecVisit == InitVisit /\ [][NextReduce]_vars

\* the heap of rank r when the page loop of the step starts: the KMV (that of
\* the engine for reduce, the converted KV for compress) and the new KV
LoopHeap(r) ==
  LET H  == IF last'.op = "reduce" THEN rk[r]
            ELSE Call("MR_convert", <<Entry(rk[r]), last'.e>>)
      id == NewId(DOMAIN H.kvs)
  IN  [new_kv(H, last'.e, id) EXCEPT !.mr[last'.e].kv = id]

\* the pages the loop of the step requests, in order, on a rank with heap H
Requested(H) ==
  Call("reduce_requests",
       <<H, last'.e, last'.arg[1], 0, H.kvs[H.mr[last'.e].kmv].npage>>)

\* the pages of KMV id from page ipage on that hold pairs: a page whose pair
\* is a block header is followed by as many block pages as the header says
RECURSIVE RecordPages(_, _, _)
RecordPages(H, id, ipage) ==
  LET c == H.kvs[id]
      d == KMVDecodeAt(PageImage(H, id, ipage), 0,
                       c.kalign - 1, c.valign - 1, c.talign - 1)
      b == IF c.pages[ipage + 1].nkey >= 1 /\ d.nvalues < 0 THEN -d.nvalues ELSE 0
  IN  IF ipage >= c.npage THEN <<>>
      ELSE <<ipage>> \o RecordPages(H, id, ipage + b + 1)

\* what the callback "count" emits for the KMV pairs: the key and the number
\* of values, counted block by block for a block-split pair
Counted(pairs) == [k \in 1..Len(pairs) |-> Rec(pairs[k].key, <<Len(pairs[k].values)>>)]

\* the step is a reduce or compress that returned
VisitStep == last'.op \in {"reduce", "compress"} /\ last'.err = ""

\* C32: the page loop of reduce and compress requests the pages that hold
\* pairs, each once and in order: after a block header on page i with b
\* blocks the next request is for page i+b+1, whether or not the callback
\* loaded block pages; without block-split pairs the requests are for pages
\* 0..npage-1; the callback is called once per pair
C32_VisitsEachRecordOnce ==
  [][VisitStep =>
       \A r \in Ranks :
         \A H \in {LoopHeap(r)} :
           \A pairs \in {KMVContents(H, last'.e)}, req \in {Requested(H)} :
             /\ req = RecordPages(H, H.mr[last'.e].kmv, 0)
             /\ (\A k \in 1..Len(pairs) : pairs[k].nvalues > 0) =>
                  req = [k \in 1..H.kvs[H.mr[last'.e].kmv].npage |-> k - 1]
             /\ last'.arg[1] = "count" => last'.post[r] = Counted(pairs)
             /\ last'.arg[1] = "args" => last'.post[r] = ArgsSeen(pairs, TRUE)]_vars

\* a compress that counted a block-split pair of two blocks and then a pair
\* in a page
C32_Witness ==
  /\ last.op = "compress" /\ last.arg = <<"count">> /\ last.err = ""
  /\ \E r \in Ranks :
       /\ Len(last.pre[r]) = 7
       /\ last.post[r] = <<Rec(<<1>>, <<4>>), Rec(<<2>>, <<3>>)>>

\* a reduce that counted two block-split pairs
C32_WitnessReduce ==
  /\ last.op = "reduce" /\ last.arg = <<"count">> /\ last.err = ""
  /\ \E r \in Ranks : last.post[r] = <<Rec(<<1>>, <<6>>), Rec(<<2>>, <<6>>)>>

(***************************************************************************)
(* Block access (mapreduce.cpp:1452-1482).  SpecBlock: as SpecVisit, with  *)
(* callbacks that call multivalue_blocks() and multivalue_block(i) for     *)
(* every pair or with a block number out of range, and an application that *)
(* calls them between operators.                                           *)
(***************************************************************************)
BlockFns   == {"count", "probe", "load", "below", "beyond"}
BlockIndex == {-1, 0, 1}

\* mr->multivalue_blocks() outside a callback
BlocksOutside(e) ==
  /\ Ready
  /\ Step("multivalue_blocks", e, <<>>, "MR_multivalue_blocks", <<e>>, FALSE)

\* mr->multivalue_block(iblock,&multivalue,&valuesizes) outside a callback
BlockOutside(e, iblock) ==
  /\ Ready
  /\ Step("multivalue_block", e, <<iblock>>,
          "MR_multivalue_block", <<e, iblock>>, FALSE)

NextBlock ==
  \/ Convert(1)
  \/ \E fn \in BlockFns : Reduce(1, fn)
  \/ \E fn \in BlockFns : Compress(1, fn)
  \/ BlocksOutside(1)
  \/ \E iblock \in BlockIndex : BlockOutside(1, iblock)

SpecBlock == InitVisit /\ [][NextBlock]_vars

InvalidBlocks == "Invalid call to multivalue_block()"
InvalidBlock  == "Invalid call to multivalue_blocks()"

\* what the callbacks "probe" and "load" emit for block-split pairs: the
\* number of blocks, and the number of values of the first block
Probed(H, e, pairs) ==
  [k \in 1..Len(pairs) |-> Rec(pairs[k].key, <<-pairs[k].nvalues>>)]

\* the pages of KMV id that hold block headers
HeaderPages(H, id) ==
  {p \in 0..(H.kvs[id].npage - 1) :
     \E k \in 1..Len(RecordPages(H, id, 0)) :
       /\ RecordPages(H, id, 0)[k] = p
       /\ H.kvs[id].pages[p + 1].nkey >= 1
       /\ KMVDecodeAt(PageImage(H, id, p), 0, H.kvs[id].kalign - 1,
                      H.kvs[id].valign - 1, H.kvs[id].talign - 1).nvalues < 0}

\* multivalue_block(i) in a callback for the header on page p of the KMV of
\* engine e: an error for i outside 0..nblock-1, else page p+i+1 is loaded
BlockLoads(H, e, p) ==
  LET id == H.mr[e].kmv
      c  == H.kvs[id]
      n  == -KMVDecodeAt(PageImage(H, id, p), 0, c.kalign - 1, c.valign - 1,
                         c.talign - 1).nvalues
      B  == [H EXCEPT !.mr[e].nblock_kmv = n, !.mr[e].block_header_page = p,
                      !.mr[e].blockvalid = 1]
  IN  \A i \in (-1)..n :
        \A b \in {Call("multivalue_block", <<B, e, i>>)} :
          IF i < 0 \/ i >= n THEN b.H.err = InvalidBlock
          ELSE /\ OK(b.H)
               /\ SubSeq(b.H.mem[c.page], 1, c.pages[p + i + 2].alignsize)
                    = SubSeq(PageImage(H, id, p + i + 1), 1,
                             c.pages[p + i + 2].alignsize)
               /\ b.nvalue = ReadInt(PageImage(H, id, p + i + 1), 0)

\* the step is a reduce of an engine with a KMV or a compress of one with a KV
LoopRuns ==
  \/ last'.op = "reduce" /\ rk[0].mr[last'.e].kmv # NULL
  \/ last'.op = "compress" /\ rk[0].mr[last'.e].kv # NULL

C33_WitnessBeyond ==
  /\ last.op = "compress" /\ last.arg = <<"beyond">>
  /\ last.err = InvalidBlock
  /\ \E r \in Ranks : rk[r].err = InvalidBlock /\ rk[r].mr[1].nblock_kmv = 3

\* a reduce whose callback got the number of blocks of two block-split pairs
C33_WitnessProbe ==
  /\ last.op = "reduce" /\ last.arg = <<"probe">> /\ last.err = ""
  /\ \E r \in Ranks : last.post[r] = <<Rec(<<1>>, <<2>>), Rec(<<2>>, <<2>>)>>

(***************************************************************************)
(* map(mr,fn) (mapreduce.cpp:1255-1339)                                    *)
(***************************************************************************)
\* the pairs the callback fn emits when called once for each of the pairs
\* recs, in order
RECURSIVE EmittedFor(_, _)
EmittedFor(fn, recs) ==
  IF recs = <<>> THEN <<>>
  ELSE MapKVEmits(fn, 0, Head(recs).key, Head(recs).value)
         \o EmittedFor(fn, Tail(recs))

NoPairs == "MapReduce passed to map() does not have KeyValue pairs"

\* what the statement says of a map(mr,fn,NULL,addflag) on engine e of a rank
\* with heap H before and G after, mr holding a KV
MapsEveryPair(H, G, e, mr, fn, addflag) ==
  \A S \in {Contents(H, mr)} :
    /\ mr = e /\ addflag = 0 =>
         /\ Contents(G, e) = EmittedFor(fn, S)
         /\ H.mr[e].kv \notin DOMAIN G.kvs
    /\ mr = e /\ addflag = 1 => Contents(G, e) = S \o EmittedFor(fn, S)
    /\ mr # e => /\ Contents(G, mr) = S
                 /\ G.mr[mr].kv = H.mr[mr].kv

\* C34: map(mr,fn) calls fn once for every pair of the KV of mr, in order;
\* with mr this engine the new KV holds the emitted pairs (addflag 0, the
\* source KV destroyed) or the source pairs followed by the emitted pairs
\* (addflag 1); with mr another engine the KV of mr is unchanged; without a
\* KV in mr it is a fatal error
C34_MapOverKV ==
  [][last'.op = "map_mr" =>
       IF rk[0].mr[last'.arg[1]].kv = NULL THEN last'.err = NoPairs
       ELSE /\ last'.err = ""
            /\ \A r \in Ranks :
                 MapsEveryPair(rk[r], rk'[r], last'.e, last'.arg[1],
                               last'.arg[2], last'.arg[3])]_vars

\* the KV of engine mr is in memory on every rank
Unspilled(mr) ==
  \A r \in Ranks : rk[r].kvs[rk[r].mr[mr].kv].fileflag = 0

\* the same for the steps in which the spill file of the KV of mr is out of
\* reach of the other KVs: mr is this engine, or the KV of mr is in memory
MapOverKVOwnFile ==
  [][last'.op = "map_mr" =>
       IF rk[0].mr[last'.arg[1]].kv = NULL THEN last'.err = NoPairs
       ELSE last'.arg[1] = last'.e \/ Unspilled(last'.arg[1]) =>
              /\ last'.err = ""
              /\ \A r \in Ranks :
                   MapsEveryPair(rk[r], rk'[r], last'.e, last'.arg[1],
                                 last'.arg[2], last'.arg[3])]_vars

\* a map over the engine's own KV of three pages, added to itself
MapOverOwnSpilled ==
  /\ last.op = "map_mr" /\ last.arg = <<1, "swap", 1>> /\ last.err = ""
  /\ \E r \in Ranks : Len(last.pre[r]) = 5 /\ Len(last.post[r]) = 10

\* a map over the KV in memory of another engine
MapOverOtherUnspilled ==
  /\ last.op = "map_mr" /\ last.arg = <<2, "swap", 0>> /\ last.err = ""
  /\ \E r \in Ranks : Len(last.post[r]) = 1 /\ rk[r].kvs[rk[r].mr[2].kv].nkv = 1

(***************************************************************************)
(* SpecMerge: merge(flag,s1,s2,dest) (mapreduce.cpp:1803-1868) step by     *)
(* step.  A spool is the list of its pages, a page the list of its         *)
(* entries; an entry is a pair whose key (flag 0) or value (flag 1) is     *)
(* given to the comparator, its other part tells the entries apart.        *)
(* rk[0] holds the locals of merge and the entries added to dest.          *)
(***************************************************************************)
MergeKeys    == {1, 2, 3}      \* the strings compared (one byte)
MaxEntries   == 3              \* entries per source spool
MaxPageEntries == 2            \* entries per spool page

\* the non-decreasing lists of 1..MaxEntries keys
SortedKeys ==
  {s \in UNION {[1..n -> MergeKeys] : n \in 1..MaxEntries} :
     \A i \in 1..(Len(s) - 1) : s[i] <= s[i + 1]}

\* entry number pos of spool sp with sort string <<k>>
SpoolEntry(flag, k, sp, pos) ==
  IF flag = 0 THEN Rec(<<k>>, <<10 * sp + pos>>) ELSE Rec(<<10 * sp + pos>>, <<k>>)

\* the pages of spool sp: cap entries per page
RECURSIVE PagesOf(_, _)
PagesOf(entries, cap) ==
  IF Len(entries) <= cap THEN <<entries>>
  ELSE <<SubSeq(entries, 1, cap)>> \o PagesOf(SubSeq(entries, cap + 1, Len(entries)), cap)

SpoolOf(flag, keys, sp, cap) ==
  PagesOf([i \in 1..Len(keys) |-> SpoolEntry(flag, keys[i], sp, i)], cap)

\* the state after the declarations of merge: page 0 of both spools
\* requested, the first entries extracted
InitMerge ==
  \E flag \in {0, 1}, k1 \in SortedKeys, k2 \in SortedKeys,
     cap1 \in 1..MaxPageEntries, cap2 \in 1..MaxPageEntries :
    /\ rk = [r \in {0} |->
               [flag |-> flag, s1 |-> SpoolOf(flag, k1, 1, cap1),
                s2 |-> SpoolOf(flag, k2, 2, cap2),
                ipage1 |-> 0, ipage2 |-> 0, ientry1 |-> 0, ientry2 |-> 0,
                done |-> 0, result |-> 0, dest |-> <<>>, pc |-> "compare"]]
    /\ last = [op |-> "merge"]
    /\ nops = 0

\* str1 and str2: what extract(flag,ptr,str,nbytes) gives for the current
\* entries
Str1(m) == SortStr(m.flag, m.s1[m.ipage1 + 1][m.ientry1 + 1])
Str2(m) == SortStr(m.flag, m.s2[m.ipage2 + 1][m.ientry2 + 1])

\* if (done == 0) result = compare(str1,nbytes1,str2,nbytes2);
MergeCompare ==
  /\ rk[0].pc = "compare"
  /\ rk' = [rk EXCEPT ![0].result =
                        IF rk[0].done = 0
                        THEN CompareBytes(Str1(rk[0]), Str2(rk[0])) ELSE @,
                      ![0].pc = "first"]
  /\ last' = [op |-> "compare"]
  /\ UNCHANGED nops

\* a first block that on a tie steps over the entry of s1 without adding it
take1_skiptie(m) ==
  LET turn == m.ientry1 + 1 = Len(m.s1[m.ipage1 + 1])
      more == m.ipage1 + 1 < Len(m.s1)
      d    == IF turn /\ ~more THEN m.done + 1 ELSE m.done
  IN  IF m.result > 0 THEN [m EXCEPT !.pc = "second"]
      ELSE [m EXCEPT !.dest = IF m.result = 0 THEN @
                              ELSE Append(@, m.s1[m.ipage1 + 1][m.ientry1 + 1]),
                     !.ientry1 = IF turn /\ more THEN 0 ELSE @ + 1,
                     !.ipage1 = IF turn THEN @ + 1 ELSE @,
                     !.done = d,
                     !.result = IF turn /\ ~more THEN 1 ELSE @,
                     !.pc = IF turn /\ ~more /\ d = 2 THEN "done" ELSE "second"]

\* if (result <= 0) { dest->add(len1,ptr1); ... }  (mapreduce.cpp:1829-1846)
take1(m) ==
  LET turn == m.ientry1 + 1 = Len(m.s1[m.ipage1 + 1])
      more == m.ipage1 + 1 < Len(m.s1)
      d    == IF turn /\ ~more THEN m.done + 1 ELSE m.done
  IN  IF m.result > 0 THEN [m EXCEPT !.pc = "second"]
      ELSE [m EXCEPT !.dest = Append(@, m.s1[m.ipage1 + 1][m.ientry1 + 1]),
                     !.ientry1 = IF turn /\ more THEN 0 ELSE @ + 1,
                     !.ipage1 = IF turn THEN @ + 1 ELSE @,
                     !.done = d,
                     !.result = IF turn /\ ~more THEN 1 ELSE @,
                     !.pc = IF turn /\ ~more /\ d = 2 THEN "done" ELSE "second"]

\* if (result >= 0) { dest->add(len2,ptr2); ... }  (mapreduce.cpp:1848-1865)
take2(m) ==
  LET turn == m.ientry2 + 1 = Len(m.s2[m.ipage2 + 1])
      more == m.ipage2 + 1 < Len(m.s2)
      d    == IF turn /\ ~more THEN m.done + 1 ELSE m.done
  IN  IF m.result < 0 THEN [m EXCEPT !.pc = "compare"]
      ELSE [m EXCEPT !.dest = Append(@, m.s2[m.ipage2 + 1][m.ientry2 + 1]),
                     !.ientry2 = IF turn /\ more THEN 0 ELSE @ + 1,
                     !.ipage2 = IF turn THEN @ + 1 ELSE @,
                     !.done = d,
                     !.result = IF turn /\ ~more THEN -1 ELSE @,
                     !.pc = IF turn /\ ~more /\ d = 2 THEN "done" ELSE "compare"]

MergeFirst ==
  /\ rk[0].pc = "first"
  /\ rk' = [rk EXCEPT ![0] = take1(@)]
  /\ last' = [op |-> "first"]
  /\ UNCHANGED nops

MergeSecond ==
  /\ rk[0].pc = "second"
  /\ rk' = [rk EXCEPT ![0] = take2(@)]
  /\ last' = [op |-> "second"]
  /\ UNCHANGED nops

NextMerge == MergeCompare \/ MergeFirst \/ MergeSecond

SpecMerge == InitMerge /\ [][NextMerge]_vars

\* the loop goes on as long as it has not reached its break
SpecMergeLive == SpecMerge /\ WF_vars(NextMerge)

\* the entries of a spool, page after page
RECURSIVE EntriesOf(_)
EntriesOf(pages) ==
  IF pages = <<>> THEN <<>> ELSE Head(pages) \o EntriesOf(Tail(pages))

\* how often entry x is in the list s
Occurs(x, s) == Cardinality({i \in 1..Len(s) : s[i] = x})

\* merge has returned on rank 0
Merged == rk[0].pc = "done"

\* dest holds every entry of s1 and of s2 once and nothing else, in an order
\* that is non-decreasing under the comparator
MergedRight(m) ==
  /\ Len(m.dest) = Len(EntriesOf(m.s1)) + Len(EntriesOf(m.s2))
  /\ \A i \in 1..Len(EntriesOf(m.s1)) : Occurs(EntriesOf(m.s1)[i], m.dest) = 1
  /\ \A i \in 1..Len(EntriesOf(m.s2)) : Occurs(EntriesOf(m.s2)[i], m.dest) = 1
  /\ \A i \in 1..(Len(m.dest) - 1) :
       CompareBytes(SortStr(m.flag, m.dest[i]), SortStr(m.flag, m.dest[i + 1])) <= 0

\* C35: merge of two non-empty sorted spools ends, and dest then holds every
\* entry of s1 and every entry of s2 exactly once in non-decreasing order,
\* with ties, with either spool exhausted first, and with spools of several
\* pages
C35_MergeSortedComplete ==
  /\ [](Merged => MergedRight(rk[0]))
  /\ <>Merged

\* a finished merge of two spools of two pages each with a tie between them,
\* the first spool exhausted first
C35_Witness ==
  /\ Merged
  /\ Len(rk[0].s1) = 2 /\ Len(rk[0].s2) = 2
  /\ \E i \in 1..(Len(rk[0].dest) - 1) :
       /\ SortStr(rk[0].flag, rk[0].dest[i]) = SortStr(rk[0].flag, rk[0].dest[i + 1])
       /\ Occurs(rk[0].dest[i], EntriesOf(rk[0].s1)) = 1
       /\ Occurs(rk[0].dest[i + 1], EntriesOf(rk[0].s2)) = 1
  /\ rk[0].dest[Len(rk[0].dest)] = rk[0].s2[2][Len(rk[0].s2[2])]

\* a finished merge in which the second spool was exhausted first
C35_WitnessSecond ==
  /\ Merged
  /\ Len(rk[0].s1) = 2
  /\ rk[0].dest[Len(rk[0].dest)] = rk[0].s1[2][Len(rk[0].s1[2])]
  /\ rk[0].dest[1] = rk[0].s2[1][1]

(***************************************************************************)
(* SpecBalance: the task counts of map_file (mapreduce.cpp:1036,           *)
(* 1068-1116), pass by pass.  rk[0] holds nmap, the file sizes and the     *)
(* locals nideal, tasksperfile and ntasks.                                 *)
(***************************************************************************)
MaxMap      == 4          \* nmap 1..MaxMap
MaxFiles    == 3          \* nfiles 1..MaxFiles
MaxFileSize == 3          \* file sizes 0..MaxFileSize
BalanceDeltas == {0, 1}

TooManyFiles == "Cannot map with more files than tasks"

InitBalance ==
  \E nmap \in 1..MaxMap, nfiles \in 1..MaxFiles, delta \in BalanceDeltas :
    \E filesize \in [1..nfiles -> 0..MaxFileSize] :
      /\ rk = [r \in {0} |->
                 [nmap |-> nmap, asked |-> nmap, filesize |-> filesize,
                  delta |-> delta, nideal |-> 0,
                  tasksperfile |-> [i \in 1..nfiles |-> 0], ntasks |-> 0,
                  stuck |-> FALSE, err |-> "", pc |-> "start"]]
      /\ last = [op |-> "map_file"]
      /\ nops = 0

BalanceStep(op, m) ==
  /\ rk' = [rk EXCEPT ![0] = m]
  /\ last' = [op |-> op]
  /\ UNCHANGED nops

\* if (nfiles > nmap) error->all(...); ... nideal = MAX(1,ntotal/nmap);
\* tasksperfile[i] = MAX(1,filesize[i]/nideal); ntasks += tasksperfile[i];
BalanceStart ==
  /\ rk[0].pc = "start"
  /\ LET m == rk[0]
         nideal == Max(1, SumSeq(m.filesize) \div m.nmap)
         tpf == [i \in 1..Len(m.filesize) |-> Max(1, m.filesize[i] \div nideal)]
     IN  BalanceStep("start",
           IF Len(m.filesize) > m.nmap
           THEN [m EXCEPT !.err = TooManyFiles, !.pc = "error"]
           ELSE [m EXCEPT !.nideal = nideal, !.tasksperfile = tpf,
                          !.ntasks = SumSeq(tpf), !.pc = "grow"])

\* for (i ...) if (filesize[i] > nideal) { tasksperfile[i]++; ntasks++;
\*                                         if (ntasks == nmap) break; }
RECURSIVE grow_pass(_, _)
grow_pass(m, i) ==
  IF i > Len(m.filesize) THEN m
  ELSE IF m.filesize[i] > m.nideal
  THEN LET m1 == [m EXCEPT !.tasksperfile[i] = @ + 1, !.ntasks = @ + 1]
       IN  IF m1.ntasks = m1.nmap THEN m1 ELSE grow_pass(m1, i + 1)
  ELSE grow_pass(m, i + 1)

\* for (i ...) if (tasksperfile[i] > 1) { tasksperfile[i]--; ntasks--;
\*                                        if (ntasks == nmap) break; }
RECURSIVE shrink_pass(_, _)
shrink_pass(m, i) ==
  IF i > Len(m.filesize) THEN m
  ELSE IF m.tasksperfile[i] > 1
  THEN LET m1 == [m EXCEPT !.tasksperfile[i] = @ - 1, !.ntasks = @ - 1]
       IN  IF m1.ntasks = m1.nmap THEN m1 ELSE shrink_pass(m1, i + 1)
  ELSE shrink_pass(m, i + 1)

\* no file is larger than nideal: a pass of the first loop changes nothing
NoneToGrow(m) == \A i \in 1..Len(m.filesize) : m.filesize[i] <= m.nideal

\* while (ntasks < nmap) : one pass of the for loop
GrowPass ==
  /\ rk[0].pc = "grow" /\ rk[0].ntasks < rk[0].nmap
  /\ BalanceStep("grow", [grow_pass(rk[0], 1) EXCEPT !.stuck = NoneToGrow(rk[0])])

\* a loop that never ends and has no side effect is undefined: the build may
\* take it to end and go on with ntasks < nmap
GrowAbandoned ==
  /\ rk[0].pc = "grow" /\ rk[0].ntasks < rk[0].nmap
  /\ NoneToGrow(rk[0])
  /\ BalanceStep("abandon", [rk[0] EXCEPT !.stuck = TRUE, !.pc = "shrink"])

\* while (ntasks < nmap) : the condition is false
GrowExit ==
  /\ rk[0].pc = "grow" /\ rk[0].ntasks >= rk[0].nmap
  /\ BalanceStep("grown", [rk[0] EXCEPT !.pc = "shrink"])

\* while (ntasks > nmap) : one pass of the for loop
ShrinkPass ==
  /\ rk[0].pc = "shrink" /\ rk[0].ntasks > rk[0].nmap
  /\ BalanceStep("shrink", shrink_pass(rk[0], 1))

\* while (ntasks > nmap) : the condition is false
ShrinkExit ==
  /\ rk[0].pc = "shrink" /\ rk[0].ntasks <= rk[0].nmap
  /\ BalanceStep("shrunk", [rk[0] EXCEPT !.pc = "delta"])

\* the loop that takes tasks from the files too small for delta
\* (mapreduce.cpp:1106-1116)
DeltaReduce ==
  /\ rk[0].pc = "delta"
  /\ LET m == rk[0]
         tpf == [i \in 1..Len(m.filesize) |->
                   tasksperfile(m.filesize[i], m.tasksperfile[i], m.delta)]
     IN  BalanceStep("delta",
           [m EXCEPT !.tasksperfile = tpf,
                     !.nmap = @ - (SumSeq(m.tasksperfile) - SumSeq(tpf)),
                     !.pc = "done"])

NextBalance ==
  \/ BalanceStart
  \/ GrowPass
  \/ GrowAbandoned
  \/ GrowExit
  \/ ShrinkPass
  \/ ShrinkExit
  \/ DeltaReduce

SpecBalance == InitBalance /\ [][NextBalance]_vars

\* the loops go on as long as their conditions hold
SpecBalanceLive == SpecBalance /\ WF_vars(NextBalance)

\* the task counts are final, or the call has ended in its error
Balanced == rk[0].pc \in {"done", "error"}

\* every file has a task and the counts add up to nmap, which is the nmap
\* asked for less the tasks taken away for delta
BalancedRight(m) ==
  /\ \A i \in 1..Len(m.filesize) : m.tasksperfile[i] >= 1
  /\ SumSeq(m.tasksperfile) = m.nmap
  /\ m.nmap <= m.asked

\* the loop for ntasks < nmap is at a pass that changes nothing
GrowStuck ==
  rk[0].pc = "grow" /\ rk[0].ntasks < rk[0].nmap /\ NoneToGrow(rk[0])

\* C36: for nmap >= nfiles >= 1 and any file sizes the balancing ends, with
\* every file given at least one task and the counts adding up to the
\* (possibly delta-reduced) nmap; nfiles > nmap is a fatal error
C36_BalancingTerminates ==
  /\ [](rk[0].pc = "done" => BalancedRight(rk[0]))
  /\ [](rk[0].pc = "error" => Len(rk[0].filesize) > rk[0].asked)
  /\ [](Len(rk[0].filesize) > rk[0].asked => rk[0].pc \in {"start", "error"})
  /\ <>Balanced

\* the same, but for the calls whose first loop has no file to give a task to
BalancedUnlessStuck ==
  /\ [](rk[0].pc = "done" /\ ~rk[0].stuck => BalancedRight(rk[0]))
  /\ [](rk[0].pc = "error" => Len(rk[0].filesize) > rk[0].asked)
  /\ [](Len(rk[0].filesize) > rk[0].asked => rk[0].pc \in {"start", "error"})
  /\ [](rk[0].stuck => rk[0].ntasks < rk[0].nmap)
  /\ <>(Balanced \/ GrowStuck)

\* a call whose task counts were raised, lowered and reduced for delta
BalancedAfterPasses ==
  /\ rk[0].pc = "done"
  /\ rk[0].nmap < rk[0].asked
  /\ \E i \in 1..Len(rk[0].filesize) : rk[0].tasksperfile[i] >= 2

\* a call that left the first loop with fewer tasks than nmap
BalanceShort ==
  rk[0].pc = "done" /\ SumSeq(rk[0].tasksperfile) < rk[0].nmap

(***************************************************************************)
(* The index arrays of sort_kv (mapreduce.cpp:1667-1675)                   *)
(***************************************************************************)
\* the bytes order, soffset and slength take for a page of nkey pairs
IndexBytes(nkey) == 3 * nkey * SIZEOFINT

\* the byte ranges [a, a + n) and [b, b + k) of the slab have no byte in common
Apart(a, n, b, k) == a + n <= b \/ b + k <= a

\* for every page of the KV of engine e on a rank with heap H the arrays at
\* memavail end within the free quarter, clear of the page of the KV and of
\* the half mem2 the sorted pairs are copied to
ArraysFit(H, e) ==
  LET m  == H.mr[e]
      kv == H.kvs[m.kv]
      A  == SlabOffset(H, e, m.memavail)
      P  == SlabOffset(H, e, kv.page)
  IN  \A i \in 1..kv.npage :
        /\ IndexBytes(kv.pages[i].nkey) <= m.memquarter
        /\ Apart(A, IndexBytes(kv.pages[i].nkey), P, m.memquarter)
        /\ Apart(A, IndexBytes(kv.pages[i].nkey), m.memhalf, m.memhalf)

\* C37: in every sort_keys and sort_values the arrays order, soffset and
\* slength, 12*nkey bytes from the start of the free quarter, fit that
\* quarter for every page of the KV, and so reach neither the page of the KV
\* nor the half the sorted pairs are copied to
C37_IndexArraysFit ==
  [][last'.op \in {"sort_keys", "sort_values"} /\ rk[0].mr[last'.e].kv # NULL =>
       \A r \in Ranks : ArraysFit(rk[r], last'.e)]_vars

\* the same for pages of pairs with a key or a value (12 packed bytes or more)
ArraysFitNonEmptyPairs ==
  [][/\ last'.op \in {"sort_keys", "sort_values"} /\ rk[0].mr[last'.e].kv # NULL
     /\ \A r \in Ranks : \A i \in 1..Len(last.post[r]) :
          last.post[r][i].key # <<>> \/ last.post[r][i].value # <<>>
     => \A r \in Ranks : ArraysFit(rk[r], last'.e)]_vars

\* a sort of a KV of several pages of pairs with keys and values
SortedSeveralPages ==
  /\ last.op = "sort_keys" /\ last.err = ""
  /\ rk[0].kvs[rk[0].mr[1].kv].npage >= 2
  /\ \A i \in 1..Len(last.post[0]) : last.post[0][i].key # <<>>

(***************************************************************************)
(* The destinations aggregate computes (mapreduce.cpp:415-416)             *)
(***************************************************************************)
\* every pair the ranks hold before an aggregate(hash) on nprocs ranks gets
\* a proclist entry that is one of the ranks
ValidDestinations(pre, hash, nprocs) ==
  \A r \in DOMAIN pre : \A i \in 1..Len(pre[r]) :
    ProcOf(hash, pre[r][i].key, nprocs) \in 0..(nprocs - 1)

\* C38: in every aggregate on more than one rank the proclist entry
\* hash(key) % nprocs of every pair is a rank 0..nprocs-1, whatever int the
\* hash function of the application returns, negative ones included
C38_DestinationIsRank ==
  [][last'.op = "aggregate" /\ Cardinality(Ranks) > 1 =>
       ValidDestinations(last'.pre, last'.arg[1], Cardinality(Ranks))]_vars

\* the same for the default hash and for hash functions that return no
\* negative int
DestinationIsRankNonNegative ==
  [][/\ last'.op = "aggregate" /\ Cardinality(Ranks) > 1
     /\ \A r \in Ranks : \A i \in 1..Len(last'.pre[r]) :
          last'.arg[1] = "NULL" \/ UserHash(last'.arg[1], last'.pre[r][i].key) >= 0
     => ValidDestinations(last'.pre, last'.arg[1], Cardinality(Ranks))]_vars

\* an aggregate with a hash function of the application that sent pairs to
\* both ranks returned
AggregatedByUserHash ==
  /\ last.op = "aggregate" /\ last.err = "" /\ last.arg[1] = "first"
  /\ Cardinality(Ranks) = 2
  /\ \A r \in Ranks : last.post[r] # <<>>

\* an aggregate whose hash function returned a negative int ended in the
\* exchange
AggregateNegativeHash ==
  /\ last.op = "aggregate" /\ last.arg[1] = "neg"
  /\ last.err = "Irregular: destination is not a rank of the group"

(***************************************************************************)
(* The handle of the spill file between operators (keyvalue.cpp:140-228)   *)
(***************************************************************************)
\* the KVs the engines of the rank with heap H hold
LiveKVs(H) == {H.mr[e].kv : e \in DOMAIN H.mr} \ {NULL}

\* no KV an engine holds has its file open
HandlesClosed == \A r \in Ranks : \A id \in LiveKVs(rk[r]) : rk[r].kvs[id].fp = FPNULL

\* the operator of this step starts with kv->append() on the KV of its engine
Appends(l) ==
  \/ l.op = "add" /\ l.arg[1] # l.e
  \/ l.op \in {"map", "map_mr"} /\ l.arg[3] = 1
  \/ l.op = "gather"

\* the ranks on which the operator of this step appends to a KV with a file
SpilledAppend(l) ==
  {r \in Ranks : /\ l.e \in DOMAIN rk[r].mr /\ rk[r].mr[l.e].kv # NULL
                 /\ rk[r].kvs[rk[r].mr[l.e].kv].fileflag = 1}

\* C39: between operators no KV of an engine has its file open, so the
\* append() that starts an operator on a KV with a file opens the file "r+b",
\* and the page writes that follow go through a handle that can be written
C39_AppendReopensReadWrite ==
  /\ [](AllOK(rk) => HandlesClosed)
  /\ [][Appends(last') =>
          \A r \in SpilledAppend(last') :
            \A H \in {Call("KeyValue_append", <<rk[r], rk[r].mr[last'.e].kv>>)} :
              OK(H) /\ H.kvs[rk[r].mr[last'.e].kv].fp = "r+b"]_vars

\* an add to a KV of several pages returned with more pages than before, the
\* KV added was one of several pages too, and every file is closed again
C39_Witness ==
  /\ last.op = "add" /\ last.err = "" /\ last.arg[1] # last.e
  /\ last.prepages[0] > 1 /\ last.postpages[0] > last.prepages[0]
  /\ rk[0].kvs[rk[0].mr[last.arg[1]].kv].fileflag = 1
  /\ HandlesClosed

\* a map with addflag = 1 on a KV of several pages returned
C39_WitnessMap ==
  /\ last.op = "map" /\ last.err = "" /\ last.arg[3] = 1
  /\ last.prepages[0] > 1 /\ last.postpages[0] > last.prepages[0]

(***************************************************************************)
(* append() and complete() on a completed KeyValue (keyvalue.cpp:140-191)  *)
(***************************************************************************)
\* the pairs added between append() and complete()
TailInputs == {<<>>} \cup [1..1 -> {R8, R12, R16}] \cup [1..2 -> {R8, R12, R16}]

\* the step: last.out keeps the container and its file as they were before
\* (once per behaviour with pairs, any number of times without)
KVExtend(ds) ==
  /\ last.phase = "complete"
  /\ last.op # "extend"
  /\ KVStep(Call("append_add_complete", <<rk[0], 1, ds>>),
            IF ds = <<>> THEN "reopen" ELSE "extend",
            <<rk[0].kvs[1], FileOf(rk[0], rk[0].kvs[1].filename)>>,
            [last.log EXCEPT ![1] = @ \o ds], "complete", last.nadds)

NextTail ==
  \/ \E rec \in Recs : KVAdd(rec)
  \/ KVComplete
  \/ KVAddKV
  \/ KVCopy
  \/ \E ds \in TailInputs : KVExtend(ds)

SpecTail == InitKV /\ [][NextTail]_vars

\* the descriptors of the pages of kv
Descriptors(kv) == SubSeq(kv.pages, 1, kv.npage)

\* page count, descriptors and totals of kv are those of old
SameKV(old, kv) ==
  /\ kv.npage = old.npage
  /\ Descriptors(kv) = Descriptors(old)
  /\ kv.nkv = old.nkv /\ kv.ksize = old.ksize
  /\ kv.vsize = old.vsize /\ kv.tsize = old.tsize

\* the pages before the last page of old are as they were, in the list and
\* in the file, and the page that took the place of the last one is at its
\* offset
TailRewritten(old, oldfile, kv, file) ==
  /\ kv.npage >= old.npage
  /\ \A i \in 1..(old.npage - 1) : kv.pages[i] = old.pages[i]
  /\ kv.pages[old.npage].fileoffset = old.pages[old.npage].fileoffset
  /\ kv.pages[old.npage].nkey >= old.pages[old.npage].nkey
  /\ old.fileflag = 1 =>
       FileRead(file, 0, old.pages[old.npage].fileoffset)
         = FileRead(oldfile, 0, old.pages[old.npage].fileoffset)

\* C40: append() followed at once by complete() leaves a completed KeyValue
\* with the page count, the descriptors of all pages and the totals it had;
\* with pairs added in between, the descriptors and the file contents of the
\* pages before the old last page are unchanged, the page written in its
\* place is at the old last page's file offset, and the pages read back are
\* the pairs handed to the container
C40_AppendCompleteTail ==
  LET kv == rk[0].kvs[1]
  IN  /\ last.op = "reopen" =>
           /\ SameKV(last.out[1], kv)
           /\ kv.fileflag = last.out[1].fileflag /\ kv.fp = FPNULL
           /\ FileOf(rk[0], kv.filename) = last.out[2]
      /\ last.op = "extend" =>
           /\ TailRewritten(last.out[1], last.out[2], kv, FileOf(rk[0], kv.filename))
           /\ Call("KeyValue_iterate", <<rk[0], 1>>).recs = last.log[1]

\* pairs were added after append() to a container of two pages whose last
\* page had room for the first of them only, and complete() returned with
\* three pages
C40_Witness ==
  /\ last.op = "extend"
  /\ last.out[1].npage = 2 /\ last.out[1].fileflag = 1
  /\ last.out[1].pages[2].nkey = 1
  /\ rk[0].kvs[1].npage = 3
  /\ rk[0].kvs[1].pages[2].nkey = 2

\* append() and complete() with nothing in between on a container of several
\* pages
C40_WitnessReopen ==
  /\ last.op = "reopen"
  /\ rk[0].kvs[1].npage >= 2 /\ rk[0].kvs[1].pages[rk[0].kvs[1].npage].nkey >= 1

\* the same on a container of one page without a file, then made to spill
C40_WitnessFirstSpill ==
  /\ last.op = "extend"
  /\ last.out[1].npage = 1 /\ last.out[1].fileflag = 0 /\ last.out[1].nkv >= 1
  /\ rk[0].kvs[1].npage = 2
====
